---- MODULE Spec2Model ----
(***************************************************************************)
(* A model of the AetherOS microkernel core: the capability space          *)
(* (capability.rs), the scheduler (scheduler.rs), the message queue        *)
(* (ipc.rs) and the memory manager (memory.rs).  Every operation of a      *)
(* component is one action; the result of the last call is kept in a       *)
(* variable so that the contracts of the operations can be stated as       *)
(* state predicates or as properties of single steps.                      *)
(***************************************************************************)
EXTENDS Integers, Sequences, FiniteSets, TLC

VARIABLES
    capabilities,   \* CapabilitySpace.capabilities : Vec<Capability>
    next_id,        \* generate_id::NEXT_ID
    cap_pre,        \* the capabilities before the last capability call
    cap_ret,        \* the last capability call: operation, arguments, result
    tasks,          \* Scheduler.tasks : BinaryHeap<Task>, as its data array
    current,        \* Scheduler.current : Option<Task>
    cpu_affinity,   \* Scheduler.cpu_affinity : HashMap<TaskId, CpuMask>
    realtime_queue, \* Scheduler.realtime_queue : VecDeque<Task>
    stats,          \* Scheduler.stats : SchedulerStats
    now,            \* the platform clock get_current_time() reads
    added,          \* number of tasks handed to add_task so far
    sched_hung,     \* a schedule() call is looping and will not return
    calls,          \* number of scheduler calls made so far
    sched_ret,      \* the last scheduler call: operation, arguments, result
    capacity,       \* MessageQueue.capacity : usize
    queues,         \* MessageQueue.queues : BTreeMap<TaskId, VecDeque<Message>>
    shared_buffers, \* MessageQueue.shared_buffers : BTreeMap<MessageId, SharedBuffer>
    ipc_stats,      \* MessageQueue.stats : IPCStats
    rx,             \* the receive() call inside wait_for_message, holding the lock
    ipc_calls,      \* number of message queue calls made so far
    ipc_ret,        \* the last message queue call: operation, arguments, result
    regions,        \* MemoryManager.regions : Vec<MemoryRegion>
    free_lists,     \* MemoryManager.free_lists : Vec<FreeList>
    huge_pages,     \* MemoryManager.huge_pages : BTreeMap<usize, Vec<*mut u8>>
    cache,          \* MemoryManager.cache : LruCache<usize, *mut u8>
    preallocated,   \* MemoryManager.preallocated : VecDeque<*mut u8>
    handed,         \* the regions the manager has returned to its callers
    mem_calls,      \* number of memory manager calls made so far
    mem_ret         \* the last memory manager call: operation, arguments, result

cap_vars == <<capabilities, next_id, cap_pre, cap_ret>>

sched_vars == <<tasks, current, cpu_affinity, realtime_queue, stats, now, added,
                sched_hung, calls, sched_ret>>

ipc_vars == <<capacity, queues, shared_buffers, ipc_stats, rx, ipc_calls, ipc_ret>>

mem_vars == <<regions, free_lists, huge_pages, cache, preallocated, handed, mem_calls,
              mem_ret>>

vars == <<capabilities, next_id, cap_pre, cap_ret, tasks, current, cpu_affinity,
          realtime_queue, stats, now, added, sched_hung, calls, sched_ret,
          queues, shared_buffers, ipc_stats, rx, ipc_calls, ipc_ret,
          regions, free_lists, huge_pages, cache, preallocated, handed, mem_calls, mem_ret>>

----------------------------------------------------------------------------
(* Bounds *)

MaxInitCaps == 1    \* capabilities installed by the task-creation service
MaxCaps == 2        \* longest capability list explored
MaxDerive == 1      \* number of ids generate_id hands out in one behaviour
MaxResource == 2    \* resource ids 1..MaxResource
MaxOwner == 2       \* owning task ids 1..MaxOwner
MaxTasks == 2       \* tasks handed to add_task in one behaviour
MaxCalls == 5       \* scheduler calls in one behaviour
MaxTicks == 1       \* clock advances in one behaviour
Capacity == 2       \* the largest MessageQueue::new(capacity): messages per mailbox
MaxIpcCalls == 4    \* message queue calls in one behaviour
MaxMemCallsLong == 7  \* memory-manager calls in a behaviour of SpecMemLong
MaxMemCalls == 5    \* memory manager calls in one behaviour

----------------------------------------------------------------------------
(* capability.rs: types *)

\* enum CapabilityType
CapabilityType ==
    {"Memory", "IO", "IPC", "Process", "Device", "Network", "FileSystem", "System"}

\* the capability types the explored calls use
CapTypesUsed == {"Memory", "IPC"}

\* struct CapabilityRights: the set of the fields that are true
RightBits == {"read", "write", "execute", "grant", "revoke"}

CapabilityRights == SUBSET RightBits

\* the rights the explored calls use: no bit, one bit, or every bit set
RightsUsed == {r \in CapabilityRights : Cardinality(r) \in {0, 1, Cardinality(RightBits)}}

\* struct Capability
Capability(id, typ, rights, resource, owner) ==
    [id |-> id, typ |-> typ, rights |-> rights, resource |-> resource, owner |-> owner]

NoCap == Capability(0, "None", {}, 0, 0)

Resources == 1..MaxResource

Owners == 1..MaxOwner

----------------------------------------------------------------------------
(* capability.rs: helpers *)

\* bool >= bool on one field of CapabilityRights
BitGe(held, req, b) == (b \in req) => (b \in held)

\* rights_are_subset with the revoke conjunct left out
RightsAreSubsetNoRevoke(subset, superset) ==
    /\ ("read" \notin subset \/ "read" \in superset)
    /\ ("write" \notin subset \/ "write" \in superset)
    /\ ("execute" \notin subset \/ "execute" \in superset)
    /\ ("grant" \notin subset \/ "grant" \in superset)

RightsAreSubset(subset, superset) ==
    /\ ("read" \notin subset \/ "read" \in superset)
    /\ ("write" \notin subset \/ "write" \in superset)
    /\ ("execute" \notin subset \/ "execute" \in superset)
    /\ ("grant" \notin subset \/ "grant" \in superset)
    /\ ("revoke" \notin subset \/ "revoke" \in superset)

\* can_grant without the test of the grant bit
CanGrantNoBit(caps, cap) ==
    \E i \in 1..Len(caps) :
        /\ caps[i].typ = cap.typ
        /\ RightsAreSubset(cap.rights, caps[i].rights)

\* can_grant that lets an empty space accept a first capability
CanGrantFirst(caps, cap) ==
    \/ caps = <<>>
    \/ \E i \in 1..Len(caps) :
          /\ caps[i].typ = cap.typ
          /\ "grant" \in caps[i].rights
          /\ RightsAreSubset(cap.rights, caps[i].rights)

\* can_grant without the subset test
CanGrantAnyRights(caps, cap) ==
    \E i \in 1..Len(caps) :
        /\ caps[i].typ = cap.typ
        /\ "grant" \in caps[i].rights

CanGrant(caps, cap) ==
    \E i \in 1..Len(caps) :
        /\ caps[i].typ = cap.typ
        /\ "grant" \in caps[i].rights
        /\ RightsAreSubset(cap.rights, caps[i].rights)

\* can_revoke without the comparison of the resource ids
CanRevokeAnyResource(caps, cap) ==
    \E i \in 1..Len(caps) :
        /\ caps[i].typ = cap.typ
        /\ "revoke" \in caps[i].rights

CanRevoke(caps, cap) ==
    \E i \in 1..Len(caps) :
        /\ caps[i].typ = cap.typ
        /\ "revoke" \in caps[i].rights
        /\ caps[i].resource = cap.resource

CheckResourceLimits(caps, cap) == TRUE

\* iter().position(|c| c.id == cap_id): 0 when there is none
Position(caps, cap_id) ==
    IF \E i \in 1..Len(caps) : caps[i].id = cap_id
    THEN CHOOSE i \in 1..Len(caps) :
            /\ caps[i].id = cap_id
            /\ \A j \in 1..(i - 1) : caps[j].id # cap_id
    ELSE 0

\* Vec::remove(pos)
Remove(caps, pos) ==
    [i \in 1..(Len(caps) - 1) |-> IF i < pos THEN caps[i] ELSE caps[i + 1]]

\* the value check() returns
CheckResult(caps, typ, rights) ==
    \E i \in 1..Len(caps) :
        /\ caps[i].typ = typ
        /\ BitGe(caps[i].rights, rights, "read")
        /\ BitGe(caps[i].rights, rights, "write")
        /\ BitGe(caps[i].rights, rights, "execute")

CapRet(op, err, id, typ, rights, cap) ==
    [op |-> op, err |-> err, id |-> id, typ |-> typ, rights |-> rights, cap |-> cap]

----------------------------------------------------------------------------
(* capability.rs: operations *)

\* the spaces a task-creation service hands over: ids come from generate_id
InitSpaces ==
    UNION {[1..n -> [id : 1..MaxInitCaps, typ : CapTypesUsed, rights : RightsUsed,
                     resource : Resources, owner : Owners]] : n \in 0..MaxInitCaps}


Grant(cap) ==
    /\ cap_pre' = capabilities
    /\ IF ~CanGrant(capabilities, cap)
       THEN /\ cap_ret' = CapRet("grant", "InsufficientRights", cap.id, cap.typ, cap.rights, cap)
            /\ UNCHANGED <<capabilities, next_id>>
       ELSE IF ~CheckResourceLimits(capabilities, cap)
       THEN /\ cap_ret' = CapRet("grant", "ResourceLimitExceeded", cap.id, cap.typ, cap.rights, cap)
            /\ UNCHANGED <<capabilities, next_id>>
       ELSE /\ capabilities' = Append(capabilities, cap)
            /\ cap_ret' = CapRet("grant", "Ok", cap.id, cap.typ, cap.rights, cap)
            /\ UNCHANGED next_id

Revoke(cap_id) ==
    /\ cap_pre' = capabilities
    /\ LET pos == Position(capabilities, cap_id) IN
       IF pos # 0
       THEN IF ~CanRevoke(capabilities, capabilities[pos])
            THEN /\ cap_ret' = CapRet("revoke", "InsufficientRights", cap_id, "None", {}, capabilities[pos])
                 /\ UNCHANGED <<capabilities, next_id>>
            ELSE /\ capabilities' = Remove(capabilities, pos)
                 /\ cap_ret' = CapRet("revoke", "Ok", cap_id, "None", {}, capabilities[pos])
                 /\ UNCHANGED next_id
       ELSE /\ cap_ret' = CapRet("revoke", "CapabilityNotFound", cap_id, "None", {}, NoCap)
            /\ UNCHANGED <<capabilities, next_id>>

Check(typ, rights) ==
    /\ cap_pre' = capabilities
    /\ cap_ret' = CapRet("check", IF CheckResult(capabilities, typ, rights) THEN "true" ELSE "false",
                         0, typ, rights, NoCap)
    /\ UNCHANGED <<capabilities, next_id>>

Derive(cap_id, new_rights) ==
    /\ cap_pre' = capabilities
    /\ LET pos == Position(capabilities, cap_id) IN
       IF pos # 0
       THEN IF ~RightsAreSubset(new_rights, capabilities[pos].rights)
            THEN /\ cap_ret' = CapRet("derive", "InsufficientRights", cap_id, "None", new_rights, NoCap)
                 /\ UNCHANGED <<capabilities, next_id>>
            ELSE /\ next_id' = next_id + 1
                 /\ cap_ret' = CapRet("derive", "Ok", cap_id, "None", new_rights,
                                      Capability(next_id, capabilities[pos].typ, new_rights,
                                                 capabilities[pos].resource, capabilities[pos].owner))
                 /\ UNCHANGED capabilities
       ELSE /\ cap_ret' = CapRet("derive", "CapabilityNotFound", cap_id, "None", new_rights, NoCap)
            /\ UNCHANGED <<capabilities, next_id>>

\* the ids generate_id may hand out in one behaviour
IdLimit == MaxCaps + MaxDerive

HeldIds(caps) == {caps[i].id : i \in 1..Len(caps)}

\* the capabilities a caller can pass to grant: Capability is neither Clone nor
\* constructible outside derive, so the id is a generated one that is not held
GrantArgs ==
    [id : (1..(next_id - 1)) \ HeldIds(capabilities), typ : CapTypesUsed, rights : RightsUsed,
     resource : Resources, owner : Owners]

GrantStep ==
    /\ Len(capabilities) < MaxCaps
    /\ \E cap \in GrantArgs : Grant(cap)
    /\ UNCHANGED <<sched_vars, ipc_vars, mem_vars>>

RevokeStep ==
    /\ \E cap_id \in 1..IdLimit : Revoke(cap_id)
    /\ UNCHANGED <<sched_vars, ipc_vars, mem_vars>>

CheckStep ==
    /\ \E typ \in CapTypesUsed, rights \in RightsUsed : Check(typ, rights)
    /\ UNCHANGED <<sched_vars, ipc_vars, mem_vars>>

DeriveStep ==
    /\ next_id <= IdLimit
    /\ \E cap_id \in 1..IdLimit, new_rights \in RightsUsed : Derive(cap_id, new_rights)
    /\ UNCHANGED <<sched_vars, ipc_vars, mem_vars>>

CapNext == GrantStep \/ RevokeStep \/ CheckStep \/ DeriveStep

----------------------------------------------------------------------------
(* scheduler.rs: types *)

\* enum TaskState
TaskState == {"Ready", "Running", "Blocked", "Sleeping", "Terminated"}

\* enum Priority, with its discriminants
Priority == {"Realtime", "High", "Normal", "Low", "Background"}

PriorityRank(p) ==
    CASE p = "Realtime" -> 0
      [] p = "High" -> 1
      [] p = "Normal" -> 2
      [] p = "Low" -> 3
      [] p = "Background" -> 4

\* struct Task (its CapabilitySpace is not read or written by the scheduler)
Task(id, state, priority, quantum, runtime, last_run, affinity, last_cpu, switches) ==
    [id |-> id, state |-> state, priority |-> priority, quantum |-> quantum,
     runtime |-> runtime, last_run |-> last_run, affinity |-> affinity,
     last_cpu |-> last_cpu, switches |-> switches]

\* Option<u32>::None for last_cpu
NoCpu == -1

\* Option<Task>::None
NoTask == Task(0, "None", "None", 0, 0, 0, 0, NoCpu, 0)

\* the cores that call schedule(): get_current_cpu()
Cpus == {0, 1}

\* the CpuMask values used: core 0 only, core 1 only, both (bit c allows core c)
CpuMasks == {1, 2, 3}

\* (affinity & (1 << cpu)) == 0
BitClear(affinity, cpu) == (affinity \div (2^cpu)) % 2 = 0

\* Scheduler::new(100) in Kernel::new
TimeSlice == 100

CACHE_HOT_THRESHOLD == 1000000

\* get_current_time(): the platform's monotonic microsecond clock
GetCurrentTime == now

----------------------------------------------------------------------------
(* scheduler.rs: the BinaryHeap of tasks *)

\* Ord for Task, as a <= b: the max-heap pops the most urgent priority first
TaskLe(a, b) == PriorityRank(a.priority) >= PriorityRank(b.priority)

\* element i of the data array, counted from 0
At(data, i) == data[i + 1]

SetAt(data, i, e) == [data EXCEPT ![i + 1] = e]

RECURSIVE SiftUp(_, _, _, _)
\* BinaryHeap::sift_up(start, pos) with the hole's element e
SiftUp(data, e, start, pos) ==
    IF pos > start /\ ~TaskLe(e, At(data, (pos - 1) \div 2))
    THEN SiftUp(SetAt(data, pos, At(data, (pos - 1) \div 2)), e, start, (pos - 1) \div 2)
    ELSE SetAt(data, pos, e)

\* BinaryHeap::push
HeapPush(data, item) == SiftUp(Append(data, item), item, 0, Len(data))

RECURSIVE SiftDownToBottom(_, _, _)
\* BinaryHeap::sift_down_to_bottom(0) with the hole's element e at pos
SiftDownToBottom(data, e, pos) ==
    LET end == Len(data)
        child == 2 * pos + 1
    IN IF end >= 2 /\ child <= end - 2
       THEN LET c == IF TaskLe(At(data, child), At(data, child + 1)) THEN child + 1 ELSE child
            IN SiftDownToBottom(SetAt(data, pos, At(data, c)), e, c)
       ELSE IF child = end - 1
       THEN SiftUp(SetAt(data, pos, At(data, child)), e, 0, child)
       ELSE SiftUp(data, e, 0, pos)

\* BinaryHeap::pop on a non-empty heap: the root, and the array left
HeapPop(data) ==
    LET item == data[Len(data)]
        rest == SubSeq(data, 1, Len(data) - 1)
    IN IF rest = <<>>
       THEN [item |-> item, rest |-> rest]
       ELSE [item |-> rest[1], rest |-> SiftDownToBottom(rest, item, 0)]

----------------------------------------------------------------------------
(* scheduler.rs: helpers *)

\* is_cache_hot
IsCacheHot(task, cpu) ==
    /\ task.last_cpu # NoCpu
    /\ task.last_cpu = cpu
    /\ GetCurrentTime - task.last_run < CACHE_HOT_THRESHOLD

PriorityFactorLowShort(p) ==
    CASE p = "Realtime" -> 2
      [] p = "High" -> 3
      [] p = "Normal" -> 4
      [] p = "Low" -> 2
      [] p = "Background" -> 8

\* priority_factor, in quarters
PriorityFactor4(p) ==
    CASE p = "Realtime" -> 2
      [] p = "High" -> 3
      [] p = "Normal" -> 4
      [] p = "Low" -> 6
      [] p = "Background" -> 8

\* history_factor, in fifths: runtime / switches < time_slice gives 0.8
HistoryFactor5(task) ==
    IF task.runtime > 0
    THEN IF task.runtime < TimeSlice * task.switches THEN 4 ELSE 6
    ELSE 5

\* cache_factor, in fifths
CacheFactor5(task, cpu) == IF IsCacheHot(task, cpu) THEN 6 ELSE 4

\* calculate_quantum: base * priority_factor * history_factor * cache_factor,
\* truncated (for the base of 100 the f64 product is the exact integer)
CalculateQuantum(task, cpu) ==
    (TimeSlice * PriorityFactor4(task.priority) * HistoryFactor5(task)
        * CacheFactor5(task, cpu)) \div 100

\* the base time slices of Scheduler::new(time_slice) the quantum is computed for
BasesUsed == {1, 3, 7, TimeSlice}

\* calculate_quantum of a scheduler with self.time_slice = base and the
\* task's history and cache factors (the f64 product, truncated, is the
\* integer quotient for every base up to 300)
QuantumOf(base, task, cpu) ==
    (base * PriorityFactor4(task.priority) * HistoryFactor5(task)
        * CacheFactor5(task, cpu)) \div 100

\* find_task_mut: index of the first pooled task with the id, 0 when none
FindTaskMut(data, task_id) ==
    IF \E i \in 1..Len(data) : data[i].id = task_id
    THEN CHOOSE i \in 1..Len(data) :
            /\ data[i].id = task_id
            /\ \A j \in 1..(i - 1) : data[j].id # task_id
    ELSE 0

SchedRet(op, err, task, cpu, id) ==
    [op |-> op, err |-> err, task |-> task, cpu |-> cpu, id |-> id]

RECURSIVE SelectLoop(_, _, _)
\* the while-let loop of schedule(): pops until a Ready task allowed on cpu is
\* found ("some"), the pool is empty ("none"), or the pool repeats ("hang")
SelectLoop(data, cpu, seen) ==
    IF data = <<>>
    THEN [kind |-> "none", task |-> NoTask, rest |-> data]
    ELSE LET p == HeapPop(data) IN
         IF p.item.state = "Ready"
         THEN IF /\ p.item.id \in DOMAIN cpu_affinity
                 /\ BitClear(cpu_affinity[p.item.id], cpu)
              THEN LET back == HeapPush(p.rest, p.item) IN
                   IF back \in seen
                   THEN [kind |-> "hang", task |-> NoTask, rest |-> back]
                   ELSE SelectLoop(back, cpu, seen \cup {back})
              ELSE [kind |-> "some", task |-> p.item, rest |-> p.rest]
         ELSE SelectLoop(p.rest, cpu, seen)

----------------------------------------------------------------------------
(* scheduler.rs: operations *)

\* SchedulerStats of Scheduler::new
NewStats == [context_switches |-> 0, preemptions |-> 0, total_runtime |-> 0]

\* the pool search and dispatch of schedule(), from the pool data
SelectFrom(data, cpu, st) ==
    LET r == SelectLoop(data, cpu, {data}) IN
    CASE r.kind = "hang" ->
            /\ tasks' = r.rest
            /\ current' = NoTask
            /\ stats' = st
            /\ sched_hung' = TRUE
            /\ sched_ret' = SchedRet("schedule", "Hang", NoTask, cpu, 0)
      [] r.kind = "none" ->
            /\ tasks' = r.rest
            /\ current' = NoTask
            /\ stats' = st
            /\ sched_hung' = FALSE
            /\ sched_ret' = SchedRet("schedule", "None", NoTask, cpu, 0)
      [] r.kind = "some" ->
            LET next_task == [r.task EXCEPT
                                 !.quantum = CalculateQuantum(r.task, cpu),
                                 !.state = "Running",
                                 !.last_run = GetCurrentTime,
                                 !.last_cpu = cpu,
                                 !.switches = r.task.switches + 1]
            IN /\ tasks' = r.rest
               /\ current' = next_task
               /\ stats' = [st EXCEPT !.context_switches = st.context_switches + 1]
               /\ sched_hung' = FALSE
               /\ sched_ret' = SchedRet("schedule", "Some", next_task, cpu, next_task.id)

ScheduleKeepsRunningState(cpu) ==
    /\ calls' = calls + 1
    /\ UNCHANGED <<cpu_affinity, now, added>>
    /\ IF realtime_queue # <<>>
       THEN /\ realtime_queue' = Tail(realtime_queue)
            /\ stats' = [stats EXCEPT !.context_switches = stats.context_switches + 1]
            /\ sched_ret' = SchedRet("schedule", "Some", Head(realtime_queue), cpu,
                                     Head(realtime_queue).id)
            /\ UNCHANGED <<tasks, current, sched_hung>>
       ELSE /\ UNCHANGED realtime_queue
            /\ IF current # NoTask /\ current.state = "Running"
               THEN LET runtime == GetCurrentTime - current.last_run
                        task == [current EXCEPT !.runtime = current.runtime + runtime]
                        st == [stats EXCEPT !.total_runtime = stats.total_runtime + runtime]
                    IN IF runtime >= task.quantum
                       THEN SelectFrom(HeapPush(tasks, task), cpu,
                                       [st EXCEPT !.preemptions = st.preemptions + 1])
                       ELSE /\ current' = NoTask
                            /\ stats' = st
                            /\ sched_ret' = SchedRet("schedule", "Some", task, cpu, task.id)
                            /\ UNCHANGED <<tasks, sched_hung>>
               ELSE SelectFrom(tasks, cpu, stats)

Schedule(cpu) ==
    /\ calls' = calls + 1
    /\ UNCHANGED <<cpu_affinity, now, added>>
    /\ IF realtime_queue # <<>>
       THEN /\ realtime_queue' = Tail(realtime_queue)
            /\ stats' = [stats EXCEPT !.context_switches = stats.context_switches + 1]
            /\ sched_ret' = SchedRet("schedule", "Some", Head(realtime_queue), cpu,
                                     Head(realtime_queue).id)
            /\ UNCHANGED <<tasks, current, sched_hung>>
       ELSE /\ UNCHANGED realtime_queue
            /\ IF current # NoTask /\ current.state = "Running"
               THEN LET runtime == GetCurrentTime - current.last_run
                        task == [current EXCEPT !.runtime = current.runtime + runtime]
                        st == [stats EXCEPT !.total_runtime = stats.total_runtime + runtime]
                    IN IF runtime >= task.quantum
                       THEN SelectFrom(HeapPush(tasks, [task EXCEPT !.state = "Ready"]), cpu,
                                       [st EXCEPT !.preemptions = st.preemptions + 1])
                       ELSE /\ current' = NoTask
                            /\ stats' = st
                            /\ sched_ret' = SchedRet("schedule", "Some", task, cpu, task.id)
                            /\ UNCHANGED <<tasks, sched_hung>>
               ELSE SelectFrom(tasks, cpu, stats)

AddTaskKeepsRuntime(task) ==
    /\ calls' = calls + 1
    /\ tasks' = HeapPush(tasks, [task EXCEPT !.state = "Ready", !.last_run = 0,
                                             !.last_cpu = NoCpu, !.switches = 0])
    /\ added' = added + 1
    /\ sched_ret' = SchedRet("add_task", "Ok", task, NoCpu, task.id)
    /\ UNCHANGED <<current, cpu_affinity, realtime_queue, stats, now, sched_hung>>

AddTask(task) ==
    /\ calls' = calls + 1
    /\ tasks' = HeapPush(tasks, [task EXCEPT !.state = "Ready", !.last_run = 0, !.runtime = 0,
                                             !.last_cpu = NoCpu, !.switches = 0])
    /\ added' = added + 1
    /\ sched_ret' = SchedRet("add_task", "Ok", task, NoCpu, task.id)
    /\ UNCHANGED <<current, cpu_affinity, realtime_queue, stats, now, sched_hung>>

BlockTask(task_id) ==
    /\ calls' = calls + 1
    /\ LET i == FindTaskMut(tasks, task_id) IN
       IF i # 0
       THEN /\ tasks' = [tasks EXCEPT ![i].state = "Blocked"]
            /\ sched_ret' = SchedRet("block_task", "Ok", NoTask, NoCpu, task_id)
       ELSE /\ sched_ret' = SchedRet("block_task", "TaskNotFound", NoTask, NoCpu, task_id)
            /\ UNCHANGED tasks
    /\ UNCHANGED <<current, cpu_affinity, realtime_queue, stats, now, added, sched_hung>>

WakeTask(task_id) ==
    /\ calls' = calls + 1
    /\ LET i == FindTaskMut(tasks, task_id) IN
       IF i # 0
       THEN IF tasks[i].state = "Blocked"
            THEN /\ tasks' = [tasks EXCEPT ![i].state = "Ready"]
                 /\ sched_ret' = SchedRet("wake_task", "Ok", NoTask, NoCpu, task_id)
            ELSE /\ sched_ret' = SchedRet("wake_task", "InvalidState", NoTask, NoCpu, task_id)
                 /\ UNCHANGED tasks
       ELSE /\ sched_ret' = SchedRet("wake_task", "TaskNotFound", NoTask, NoCpu, task_id)
            /\ UNCHANGED tasks
    /\ UNCHANGED <<current, cpu_affinity, realtime_queue, stats, now, added, sched_hung>>

SetPriority(task_id, priority) ==
    /\ calls' = calls + 1
    /\ LET i == FindTaskMut(tasks, task_id) IN
       IF i # 0
       THEN /\ tasks' = [tasks EXCEPT ![i].priority = priority]
            /\ sched_ret' = SchedRet("set_priority", "Ok", NoTask, NoCpu, task_id)
       ELSE /\ sched_ret' = SchedRet("set_priority", "TaskNotFound", NoTask, NoCpu, task_id)
            /\ UNCHANGED tasks
    /\ UNCHANGED <<current, cpu_affinity, realtime_queue, stats, now, added, sched_hung>>

SetAffinity(task_id, affinity) ==
    /\ calls' = calls + 1
    /\ LET i == FindTaskMut(tasks, task_id) IN
       IF i # 0
       THEN /\ tasks' = [tasks EXCEPT ![i].affinity = affinity]
            /\ cpu_affinity' = [t \in DOMAIN cpu_affinity \cup {task_id} |->
                                   IF t = task_id THEN affinity ELSE cpu_affinity[t]]
            /\ sched_ret' = SchedRet("set_affinity", "Ok", NoTask, NoCpu, task_id)
       ELSE /\ sched_ret' = SchedRet("set_affinity", "TaskNotFound", NoTask, NoCpu, task_id)
            /\ UNCHANGED <<tasks, cpu_affinity>>
    /\ UNCHANGED <<current, realtime_queue, stats, now, added, sched_hung>>

\* the platform clock advances, by one base time slice
Tick ==
    /\ now < MaxTicks * TimeSlice
    /\ now' = now + TimeSlice
    /\ UNCHANGED <<tasks, current, cpu_affinity, realtime_queue, stats, added,
                   sched_hung, calls, sched_ret>>
    /\ UNCHANGED <<cap_vars, ipc_vars, mem_vars>>

\* the Task values the task-creation service passes to add_task: a new id, any
\* priority and affinity, and transient fields left over from construction
TaskArgs ==
    {Task(added + 1, "Terminated", p, 0, 7, 7, a, 1, 7) : p \in Priority, a \in CpuMasks}

TaskIds == 1..MaxTasks

\* a call can be made: no schedule() call is stuck holding the scheduler
CanCall == ~sched_hung /\ calls < MaxCalls

AddTaskStep ==
    /\ CanCall
    /\ added < MaxTasks
    /\ \E task \in TaskArgs : AddTask(task)
    /\ UNCHANGED <<cap_vars, ipc_vars, mem_vars>>

ScheduleStep ==
    /\ CanCall
    /\ \E cpu \in Cpus : Schedule(cpu)
    /\ UNCHANGED <<cap_vars, ipc_vars, mem_vars>>

BlockTaskStep ==
    /\ CanCall
    /\ \E task_id \in TaskIds : BlockTask(task_id)
    /\ UNCHANGED <<cap_vars, ipc_vars, mem_vars>>

WakeTaskStep ==
    /\ CanCall
    /\ \E task_id \in TaskIds : WakeTask(task_id)
    /\ UNCHANGED <<cap_vars, ipc_vars, mem_vars>>

SetPriorityStep ==
    /\ CanCall
    /\ \E task_id \in TaskIds, priority \in Priority : SetPriority(task_id, priority)
    /\ UNCHANGED <<cap_vars, ipc_vars, mem_vars>>

SetAffinityStep ==
    /\ CanCall
    /\ \E task_id \in TaskIds, affinity \in CpuMasks : SetAffinity(task_id, affinity)
    /\ UNCHANGED <<cap_vars, ipc_vars, mem_vars>>

SchedNext ==
    \/ AddTaskStep
    \/ ScheduleStep
    \/ BlockTaskStep
    \/ WakeTaskStep
    \/ SetPriorityStep
    \/ SetAffinityStep
    \/ Tick

----------------------------------------------------------------------------
(* ipc.rs: types *)

\* enum MessageType
MessageType == {"Signal", "Data", "SharedMem", "Stream"}

\* struct MessageFlags
MessageFlags(priority, nonblocking, zero_copy) ==
    [priority |-> priority, nonblocking |-> nonblocking, zero_copy |-> zero_copy]

\* Message.data : Option<*const u8> is None
NoData == 0

\* struct Message; data is NoData or the address of the payload
Message(id, typ, sender, receiver, data, size, flags) ==
    [id |-> id, typ |-> typ, sender |-> sender, receiver |-> receiver,
     data |-> data, size |-> size, flags |-> flags]

NoMessage == Message(0, "None", 0, 0, NoData, 0, MessageFlags(0, FALSE, FALSE))

\* struct SharedBuffer
SharedBuffer(data, size, refcount) == [data |-> data, size |-> size, refcount |-> refcount]

\* IPCStats as MessageQueue::new fills it
NewIPCStats == [messages_sent |-> 0, messages_received |-> 0, total_bytes |-> 0]

\* no receive() is inside wait_for_message
NoWait == [task |-> 0, start |-> 0, timeout |-> 0]

\* the write guard of MessageQueue.lock is held from one step to the next only
\* by a receive() that is polling in wait_for_message
LockHeld == rx # NoWait

\* the last call: for send the message passed, for receive the calling task,
\* the timeout and the message returned
IpcRet(op, err, msg, task, timeout) ==
    [op |-> op, err |-> err, msg |-> msg, task |-> task, timeout |-> timeout]

\* the message ids, receiving tasks and payload addresses the explored calls use
MsgIds == {1, 2}
Receivers == {1, 2}
Payloads == {4096, 8192}

\* the messages passed to send: for the first receiver an inline message, one
\* with the non-blocking flag, a zero-copy message carrying a payload address
\* and a signal, under each id; for the other receivers an inline message and
\* a signal
MessagesUsed ==
    UNION {{Message(id, "Data", 0, 1, NoData, 8, MessageFlags(0, FALSE, FALSE)),
            Message(id, "Stream", 0, 1, NoData, 8, MessageFlags(0, TRUE, FALSE)),
            Message(id, "Signal", 0, 1, NoData, 0, MessageFlags(0, FALSE, FALSE))}
           : id \in MsgIds}
    \cup {Message(id, "SharedMem", 0, 1, d, 4096, MessageFlags(0, FALSE, TRUE))
           : id \in MsgIds, d \in Payloads}
    \cup UNION {{Message(1, "Data", 0, r, NoData, 8, MessageFlags(0, FALSE, FALSE)),
                 Message(1, "Signal", 0, r, NoData, 0, MessageFlags(0, FALSE, FALSE))}
                : r \in Receivers \ {1}}

\* the timeouts passed to receive
Timeouts == {0, TimeSlice}

----------------------------------------------------------------------------
(* ipc.rs: operations *)

\* self.queues.entry(receiver).or_insert_with(VecDeque::new)
Entry(qs, receiver) ==
    IF receiver \in DOMAIN qs THEN qs
    ELSE [t \in DOMAIN qs \cup {receiver} |-> IF t = receiver THEN <<>> ELSE qs[t]]

\* BTreeMap::insert
Insert(map, key, value) ==
    [k \in DOMAIN map \cup {key} |-> IF k = key THEN value ELSE map[k]]

\* BTreeMap::remove
RemoveKey(map, key) == [k \in DOMAIN map \ {key} |-> map[k]]

SendSignalAtBack(msg) ==
    /\ queues' = [Entry(queues, msg.receiver) EXCEPT
                     ![msg.receiver] = Append(Entry(queues, msg.receiver)[msg.receiver], msg)]
    /\ ipc_stats' = [ipc_stats EXCEPT !.messages_sent = @ + 1]
    /\ ipc_ret' = IpcRet("send", "Ok", msg, 0, 0)
    /\ UNCHANGED shared_buffers

SendSignal(msg) ==
    /\ queues' = [Entry(queues, msg.receiver) EXCEPT
                     ![msg.receiver] = <<msg>> \o Entry(queues, msg.receiver)[msg.receiver]]
    /\ ipc_stats' = [ipc_stats EXCEPT !.messages_sent = @ + 1]
    /\ ipc_ret' = IpcRet("send", "Ok", msg, 0, 0)
    /\ UNCHANGED shared_buffers

SendIgnoresNonblocking(msg) ==
    /\ ipc_calls' = ipc_calls + 1
    /\ UNCHANGED rx
    /\ IF msg.typ = "Signal"
       THEN SendSignal(msg)
       ELSE LET qs == Entry(queues, msg.receiver) IN
            IF Len(qs[msg.receiver]) >= capacity
            THEN /\ queues' = qs
                 /\ ipc_ret' = IpcRet("send", "QueueFull", msg, 0, 0)
                 /\ UNCHANGED <<shared_buffers, ipc_stats>>
            ELSE /\ shared_buffers' =
                        IF msg.flags.zero_copy /\ msg.data # NoData
                        THEN Insert(shared_buffers, msg.id, SharedBuffer(msg.data, msg.size, 1))
                        ELSE shared_buffers
                 /\ ipc_stats' = [ipc_stats EXCEPT !.messages_sent = @ + 1,
                                                   !.total_bytes = @ + msg.size]
                 /\ queues' = [qs EXCEPT ![msg.receiver] = Append(@, msg)]
                 /\ ipc_ret' = IpcRet("send", "Ok", msg, 0, 0)

SendCountsRejected(msg) ==
    /\ ipc_calls' = ipc_calls + 1
    /\ UNCHANGED rx
    /\ IF msg.typ = "Signal"
       THEN SendSignal(msg)
       ELSE LET qs == Entry(queues, msg.receiver) IN
            IF Len(qs[msg.receiver]) >= capacity /\ ~msg.flags.nonblocking
            THEN /\ queues' = qs
                 /\ ipc_ret' = IpcRet("send", "QueueFull", msg, 0, 0)
                 /\ ipc_stats' = [ipc_stats EXCEPT !.messages_sent = @ + 1]
                 /\ UNCHANGED shared_buffers
            ELSE /\ shared_buffers' =
                        IF msg.flags.zero_copy /\ msg.data # NoData
                        THEN Insert(shared_buffers, msg.id, SharedBuffer(msg.data, msg.size, 1))
                        ELSE shared_buffers
                 /\ ipc_stats' = [ipc_stats EXCEPT !.messages_sent = @ + 1,
                                                   !.total_bytes = @ + msg.size]
                 /\ queues' = [qs EXCEPT ![msg.receiver] = Append(@, msg)]
                 /\ ipc_ret' = IpcRet("send", "Ok", msg, 0, 0)

Send(msg) ==
    /\ ipc_calls' = ipc_calls + 1
    /\ UNCHANGED rx
    /\ IF msg.typ = "Signal"
       THEN SendSignal(msg)
       ELSE LET qs == Entry(queues, msg.receiver) IN
            IF Len(qs[msg.receiver]) >= capacity /\ ~msg.flags.nonblocking
            THEN /\ queues' = qs
                 /\ ipc_ret' = IpcRet("send", "QueueFull", msg, 0, 0)
                 /\ UNCHANGED <<shared_buffers, ipc_stats>>
            ELSE /\ shared_buffers' =
                        IF msg.flags.zero_copy /\ msg.data # NoData
                        THEN Insert(shared_buffers, msg.id, SharedBuffer(msg.data, msg.size, 1))
                        ELSE shared_buffers
                 /\ ipc_stats' = [ipc_stats EXCEPT !.messages_sent = @ + 1,
                                                   !.total_bytes = @ + msg.size]
                 /\ queues' = [qs EXCEPT ![msg.receiver] = Append(@, msg)]
                 /\ ipc_ret' = IpcRet("send", "Ok", msg, 0, 0)

\* self.queues.get(&task_id)?.front().cloned()
TryReceive(task_id) ==
    IF task_id \in DOMAIN queues /\ queues[task_id] # <<>>
    THEN Head(queues[task_id]) ELSE NoMessage

ReceivePopBack(task_id, timeout) ==
    /\ ipc_calls' = ipc_calls + 1
    /\ IF task_id \notin DOMAIN queues
       THEN /\ ipc_ret' = IpcRet("receive", "NoMessages", NoMessage, task_id, timeout)
            /\ UNCHANGED <<queues, shared_buffers, ipc_stats, rx>>
       ELSE IF queues[task_id] # <<>>
       THEN LET msg == queues[task_id][Len(queues[task_id])] IN
            /\ queues' = [queues EXCEPT ![task_id] = SubSeq(@, 1, Len(@) - 1)]
            /\ shared_buffers' =
                   IF msg.flags.zero_copy /\ msg.id \in DOMAIN shared_buffers
                   THEN IF shared_buffers[msg.id].refcount = 1
                        THEN RemoveKey(shared_buffers, msg.id)
                        ELSE [shared_buffers EXCEPT ![msg.id].refcount = @ - 1]
                   ELSE shared_buffers
            /\ ipc_stats' = [ipc_stats EXCEPT !.messages_received = @ + 1]
            /\ ipc_ret' = IpcRet("receive", "Ok", msg, task_id, timeout)
            /\ UNCHANGED rx
       ELSE IF timeout = 0
       THEN /\ ipc_ret' = IpcRet("receive", "NoMessages", NoMessage, task_id, timeout)
            /\ UNCHANGED <<queues, shared_buffers, ipc_stats, rx>>
       ELSE /\ rx' = [task |-> task_id, start |-> GetCurrentTime, timeout |-> timeout]
            /\ ipc_ret' = IpcRet("wait", "Pending", NoMessage, task_id, timeout)
            /\ UNCHANGED <<queues, shared_buffers, ipc_stats>>

ReceiveNoCount(task_id, timeout) ==
    /\ ipc_calls' = ipc_calls + 1
    /\ IF task_id \notin DOMAIN queues
       THEN /\ ipc_ret' = IpcRet("receive", "NoMessages", NoMessage, task_id, timeout)
            /\ UNCHANGED <<queues, shared_buffers, ipc_stats, rx>>
       ELSE IF queues[task_id] # <<>>
       THEN LET msg == Head(queues[task_id]) IN
            /\ queues' = [queues EXCEPT ![task_id] = Tail(@)]
            /\ shared_buffers' =
                   IF msg.flags.zero_copy /\ msg.id \in DOMAIN shared_buffers
                   THEN IF shared_buffers[msg.id].refcount = 1
                        THEN RemoveKey(shared_buffers, msg.id)
                        ELSE [shared_buffers EXCEPT ![msg.id].refcount = @ - 1]
                   ELSE shared_buffers
            /\ ipc_stats' = ipc_stats
            /\ ipc_ret' = IpcRet("receive", "Ok", msg, task_id, timeout)
            /\ UNCHANGED rx
       ELSE IF timeout = 0
       THEN /\ ipc_ret' = IpcRet("receive", "NoMessages", NoMessage, task_id, timeout)
            /\ UNCHANGED <<queues, shared_buffers, ipc_stats, rx>>
       ELSE /\ rx' = [task |-> task_id, start |-> GetCurrentTime, timeout |-> timeout]
            /\ ipc_ret' = IpcRet("wait", "Pending", NoMessage, task_id, timeout)
            /\ UNCHANGED <<queues, shared_buffers, ipc_stats>>

\* receive() up to the call of wait_for_message; task_id is get_current_task()
Receive(task_id, timeout) ==
    /\ ipc_calls' = ipc_calls + 1
    /\ IF task_id \notin DOMAIN queues
       THEN /\ ipc_ret' = IpcRet("receive", "NoMessages", NoMessage, task_id, timeout)
            /\ UNCHANGED <<queues, shared_buffers, ipc_stats, rx>>
       ELSE IF queues[task_id] # <<>>
       THEN LET msg == Head(queues[task_id]) IN
            /\ queues' = [queues EXCEPT ![task_id] = Tail(@)]
            /\ shared_buffers' =
                   IF msg.flags.zero_copy /\ msg.id \in DOMAIN shared_buffers
                   THEN IF shared_buffers[msg.id].refcount = 1
                        THEN RemoveKey(shared_buffers, msg.id)
                        ELSE [shared_buffers EXCEPT ![msg.id].refcount = @ - 1]
                   ELSE shared_buffers
            /\ ipc_stats' = [ipc_stats EXCEPT !.messages_received = @ + 1]
            /\ ipc_ret' = IpcRet("receive", "Ok", msg, task_id, timeout)
            /\ UNCHANGED rx
       ELSE IF timeout = 0
       THEN /\ ipc_ret' = IpcRet("receive", "NoMessages", NoMessage, task_id, timeout)
            /\ UNCHANGED <<queues, shared_buffers, ipc_stats, rx>>
       ELSE /\ rx' = [task |-> task_id, start |-> GetCurrentTime, timeout |-> timeout]
            /\ ipc_ret' = IpcRet("wait", "Pending", NoMessage, task_id, timeout)
            /\ UNCHANGED <<queues, shared_buffers, ipc_stats>>

\* the loop of wait_for_message leaves: a poll that finds a message returns a
\* copy of the front message, the loop test failing returns Timeout; a poll
\* that finds nothing changes nothing
WaitForMessage ==
    /\ rx # NoWait
    /\ IF GetCurrentTime - rx.start < rx.timeout
       THEN /\ TryReceive(rx.task) # NoMessage
            /\ ipc_ret' = IpcRet("receive", "Ok", TryReceive(rx.task), rx.task, rx.timeout)
       ELSE ipc_ret' = IpcRet("receive", "Timeout", NoMessage, rx.task, rx.timeout)
    /\ rx' = NoWait
    /\ UNCHANGED <<queues, shared_buffers, ipc_stats, ipc_calls>>

\* a call takes the lock first, and there is a bound on the calls explored
CanCallIpc == ~LockHeld /\ ipc_calls < MaxIpcCalls

SendStep ==
    /\ CanCallIpc
    /\ \E msg \in MessagesUsed : Send(msg)
    /\ UNCHANGED <<capacity, cap_vars, sched_vars, mem_vars>>

ReceiveStep ==
    /\ CanCallIpc
    /\ \E task_id \in Receivers, timeout \in Timeouts : Receive(task_id, timeout)
    /\ UNCHANGED <<capacity, cap_vars, sched_vars, mem_vars>>

WaitForMessageStep ==
    /\ WaitForMessage
    /\ UNCHANGED <<capacity, cap_vars, sched_vars, mem_vars>>

IpcNext == SendStep \/ ReceiveStep \/ WaitForMessageStep \/ Tick

----------------------------------------------------------------------------
(* memory.rs: types *)

PageSize == 4096                        \* MemoryManager::new(4096)
MIN_HUGE_PAGE_SIZE == 2 * 1024 * 1024
HUGE_PAGE_SIZE == 2 * 1024 * 1024

\* enum RegionType
RegionType == {"Code", "Data", "Stack", "Shared", "Device", "Kernel"}

\* struct ProtectionFlags: the set of the fields that are true
FlagBits == {"read", "write", "execute", "user", "cached", "prefetch", "huge"}

ProtectionFlags == SUBSET FlagBits

\* Option<*mut u8> is None
NoAddr == 0

\* struct MemoryRegion; access_count and last_access are 0 in every record
\* the modelled operations build, and none of them writes to them
MemoryRegion(start, size, typ, flags, owner) ==
    [start |-> start, size |-> size, typ |-> typ, flags |-> flags, owner |-> owner]

NoRegion == MemoryRegion(NoAddr, 0, "None", {}, 0)

\* struct FreeList; pages is a Vec used as a stack, its top is the last element
FreeList(size, pages) == [size |-> size, pages |-> pages]

\* the free lists MemoryManager::new builds
NewFreeLists ==
    <<FreeList(4096, <<>>), FreeList(16384, <<>>), FreeList(65536, <<>>),
      FreeList(262144, <<>>), FreeList(1048576, <<>>)>>

\* allocate_raw_page
AllocateRawPage == NoAddr

\* preallocate_pages: the pages that allocate_raw_page yielded
PreallocatePages == IF AllocateRawPage = NoAddr THEN <<>> ELSE <<AllocateRawPage>>

\* find_free_region
FindFreeRegion(size) == NoAddr

\* get_current_task of memory.rs
GetCurrentTask == 0

\* fn align_up(addr, align), align a power of two
AlignUp(addr, align) == ((addr + align - 1) \div align) * align

\* the last call: its operation and result, the size asked for, the region
\* returned (passed in, for free) and the source that supplied the address
MemRet(op, err, size, region, path) ==
    [op |-> op, err |-> err, size |-> size, region |-> region, path |-> path]

----------------------------------------------------------------------------
(* memory.rs: operations *)

\* the flags after the match on the type at the head of allocate
TypeFlags(size, typ, flags) ==
    IF typ = "Code"
    THEN IF size >= MIN_HUGE_PAGE_SIZE THEN flags \cup {"prefetch", "huge"}
         ELSE (flags \cup {"prefetch"}) \ {"huge"}
    ELSE IF typ \in {"Stack", "Kernel"} THEN flags \cup {"prefetch", "huge"}
    ELSE IF typ = "Device" THEN flags \ {"cached", "prefetch"}
    ELSE flags

\* free_lists.iter().position(|list| list.size >= size), 0 for None
ListFor(lists, size) ==
    IF \E i \in 1..Len(lists) : lists[i].size >= size
    THEN CHOOSE i \in 1..Len(lists) :
            /\ lists[i].size >= size
            /\ \A j \in 1..(i - 1) : lists[j].size < size
    ELSE 0

\* free_lists.iter().position(|list| list.size == size), 0 for None
ListOf(lists, size) ==
    IF \E i \in 1..Len(lists) : lists[i].size = size
    THEN CHOOSE i \in 1..Len(lists) :
            /\ lists[i].size = size
            /\ \A j \in 1..(i - 1) : lists[j].size # size
    ELSE 0

\* allocate_from_free_list: the page it returns, NoAddr for None
AllocateFromFreeList(size) ==
    LET index == ListFor(free_lists, size) IN
    IF index = 0 \/ free_lists[index].pages = <<>> THEN NoAddr
    ELSE free_lists[index].pages[Len(free_lists[index].pages)]

\* allocate_huge_page: the page it returns, NoAddr for None
AllocateHugePage(size) ==
    LET aligned_size == AlignUp(size, HUGE_PAGE_SIZE) IN
    IF aligned_size \notin DOMAIN huge_pages \/ huge_pages[aligned_size] = <<>> THEN NoAddr
    ELSE huge_pages[aligned_size][Len(huge_pages[aligned_size])]

\* Vec::pop
Pop(s) == SubSeq(s, 1, Len(s) - 1)

\* create_region: the mapping step succeeds, the record is pushed and returned
CreateRegion(addr, size, typ, flags, path) ==
    LET region == MemoryRegion(addr, size, typ, flags, GetCurrentTask) IN
    /\ regions' = Append(regions, region)
    /\ handed' = handed \cup {region}
    /\ mem_ret' = MemRet("allocate", "Ok", size, region, path)

Allocate(size, typ, flags0) ==
    LET flags == TypeFlags(size, typ, flags0) IN
    /\ mem_calls' = mem_calls + 1
    /\ IF size <= PageSize /\ preallocated # <<>>
       THEN /\ preallocated' = Tail(preallocated)
            /\ CreateRegion(Head(preallocated), size, typ, flags, "preallocated")
            /\ UNCHANGED <<free_lists, huge_pages, cache>>
       ELSE IF AllocateFromFreeList(size) # NoAddr
       THEN /\ free_lists' = [free_lists EXCEPT ![ListFor(free_lists, size)].pages = Pop(@)]
            /\ cache' = Insert(cache, size, AllocateFromFreeList(size))
            /\ CreateRegion(AllocateFromFreeList(size), size, typ, flags, "free_list")
            /\ UNCHANGED <<huge_pages, preallocated>>
       ELSE IF size >= HUGE_PAGE_SIZE /\ AllocateHugePage(size) # NoAddr
       THEN /\ huge_pages' = [huge_pages EXCEPT ![AlignUp(size, HUGE_PAGE_SIZE)] = Pop(@)]
            /\ CreateRegion(AllocateHugePage(size), size, typ, flags, "huge_pages")
            /\ UNCHANGED <<free_lists, preallocated, cache>>
       ELSE IF FindFreeRegion(size) # NoAddr
       THEN /\ CreateRegion(FindFreeRegion(size), size, typ, flags, "find_free_region")
            /\ UNCHANGED <<free_lists, huge_pages, preallocated, cache>>
       ELSE /\ mem_ret' = MemRet("allocate", "OutOfMemory", size, NoRegion, "none")
            /\ UNCHANGED <<regions, free_lists, huge_pages, preallocated, cache, handed>>

\* regions.iter().position(|r| r.start == start), 0 for None
RegionAt(rs, start) ==
    IF \E i \in 1..Len(rs) : rs[i].start = start
    THEN CHOOSE i \in 1..Len(rs) :
            rs[i].start = start /\ \A j \in 1..(i - 1) : rs[j].start # start
    ELSE 0

Free(region) ==
    /\ mem_calls' = mem_calls + 1
    /\ UNCHANGED <<preallocated, cache, handed>>
    /\ IF ListOf(free_lists, region.size) # 0
       THEN /\ free_lists' = [free_lists EXCEPT
                                 ![ListOf(free_lists, region.size)].pages = Append(@, region.start)]
            /\ mem_ret' = MemRet("free", "Ok", region.size, region, "free_list")
            /\ UNCHANGED <<regions, huge_pages>>
       ELSE IF region.size >= HUGE_PAGE_SIZE
       THEN LET aligned_size == AlignUp(region.size, HUGE_PAGE_SIZE) IN
            /\ huge_pages' = Insert(huge_pages, aligned_size,
                                    Append(IF aligned_size \in DOMAIN huge_pages
                                           THEN huge_pages[aligned_size] ELSE <<>>,
                                           region.start))
            /\ mem_ret' = MemRet("free", "Ok", region.size, region, "huge_pages")
            /\ UNCHANGED <<regions, free_lists>>
       ELSE IF RegionAt(regions, region.start) # 0
       THEN /\ regions' = Remove(regions, RegionAt(regions, region.start))
            /\ mem_ret' = MemRet("free", "Ok", region.size, region, "unmap")
            /\ UNCHANGED <<free_lists, huge_pages>>
       ELSE /\ mem_ret' = MemRet("free", "RegionNotFound", region.size, region, "none")
            /\ UNCHANGED <<regions, free_lists, huge_pages>>

Share(region, target, flags) ==
    /\ mem_calls' = mem_calls + 1
    /\ UNCHANGED <<free_lists, huge_pages, preallocated, cache>>
    /\ IF RegionAt(regions, region.start) = 0
       THEN /\ mem_ret' = MemRet("share", "RegionNotFound", region.size, region, "none")
            /\ UNCHANGED <<regions, handed>>
       ELSE IF region.typ # "Shared"
       THEN /\ mem_ret' = MemRet("share", "InvalidRegionType", region.size, region, "none")
            /\ UNCHANGED <<regions, handed>>
       ELSE LET shared_region ==
                    MemoryRegion(region.start, region.size, "Shared", flags, target) IN
            /\ regions' = Append(regions, shared_region)
            /\ handed' = handed \cup {shared_region}
            /\ mem_ret' = MemRet("share", "Ok", region.size, shared_region, "none")

MapDevice(phys_addr, size, flags) ==
    LET region == MemoryRegion(phys_addr, AlignUp(size, PageSize), "Device", flags,
                               GetCurrentTask) IN
    /\ mem_calls' = mem_calls + 1
    /\ regions' = Append(regions, region)
    /\ handed' = handed \cup {region}
    /\ mem_ret' = MemRet("map_device", "Ok", size, region, "none")
    /\ UNCHANGED <<free_lists, huge_pages, preallocated, cache>>

\* the arguments of the explored calls
SizesUsed == {100, 4096, 8192, 16384, HUGE_PAGE_SIZE}
AllocTypesUsed == {"Data", "Shared", "Stack"}
DefaultFlags == {"read", "write", "cached"}
FlagsUsed == {DefaultFlags, {"read", "user"}}
DeviceAddrs == {65536, 131072}
ShareTargets == {1}

CanCallMem == mem_calls < MaxMemCalls

AllocateStep ==
    /\ CanCallMem
    /\ \E size \in SizesUsed, typ \in AllocTypesUsed, flags \in FlagsUsed :
          Allocate(size, typ, flags)
    /\ UNCHANGED <<cap_vars, sched_vars, ipc_vars>>

\* free and share take a region that an earlier call returned
FreeStep ==
    /\ CanCallMem
    /\ \E region \in handed : Free(region)
    /\ UNCHANGED <<cap_vars, sched_vars, ipc_vars>>

ShareStep ==
    /\ CanCallMem
    /\ \E region \in handed, target \in ShareTargets : Share(region, target, DefaultFlags)
    /\ UNCHANGED <<cap_vars, sched_vars, ipc_vars>>

MapDeviceStep ==
    /\ CanCallMem
    /\ \E phys_addr \in DeviceAddrs, size \in SizesUsed : MapDevice(phys_addr, size, DefaultFlags)
    /\ UNCHANGED <<cap_vars, sched_vars, ipc_vars>>

MemNext == AllocateStep \/ FreeStep \/ ShareStep \/ MapDeviceStep

\* longer call sequences on one device address: Shared regions of a bucket
\* size and of a smaller size, allocated, shared and freed again and again
LongSizesUsed == {100, PageSize}

CanCallMemLong == mem_calls < MaxMemCallsLong

LongAllocateStep ==
    /\ CanCallMemLong
    /\ \E size \in LongSizesUsed : Allocate(size, "Shared", DefaultFlags)
    /\ UNCHANGED <<cap_vars, sched_vars, ipc_vars>>

LongFreeStep ==
    /\ CanCallMemLong
    /\ \E region \in handed : Free(region)
    /\ UNCHANGED <<cap_vars, sched_vars, ipc_vars>>

LongShareStep ==
    /\ CanCallMemLong
    /\ \E region \in handed, target \in ShareTargets : Share(region, target, DefaultFlags)
    /\ UNCHANGED <<cap_vars, sched_vars, ipc_vars>>

LongMapDeviceStep ==
    /\ CanCallMemLong
    /\ \E size \in LongSizesUsed : MapDevice(65536, size, DefaultFlags)
    /\ UNCHANGED <<cap_vars, sched_vars, ipc_vars>>

MemNextLong == LongAllocateStep \/ LongFreeStep \/ LongShareStep \/ LongMapDeviceStep

----------------------------------------------------------------------------
(* Specifications *)

\* a capability space as the task-creation service hands it over, with a
\* scheduler from Scheduler::new
CapInit ==
    /\ capabilities \in {s \in InitSpaces : \A i \in 1..Len(s) : s[i].id = i}
    /\ next_id = MaxCaps + 1
    /\ cap_pre = capabilities
    /\ cap_ret = CapRet("new", "Ok", 0, "None", {}, NoCap)
    /\ tasks = <<>>
    /\ current = NoTask
    /\ cpu_affinity = <<>>
    /\ realtime_queue = <<>>
    /\ stats = NewStats
    /\ now = 0
    /\ added = 0
    /\ sched_hung = FALSE
    /\ calls = 0
    /\ sched_ret = SchedRet("new", "Ok", NoTask, NoCpu, 0)
    /\ capacity = Capacity
    /\ queues = <<>>
    /\ shared_buffers = <<>>
    /\ ipc_stats = NewIPCStats
    /\ rx = NoWait
    /\ ipc_calls = 0
    /\ ipc_ret = IpcRet("new", "Ok", NoMessage, 0, 0)
    /\ regions = <<>>
    /\ free_lists = NewFreeLists
    /\ huge_pages = <<>>
    /\ cache = <<>>
    /\ preallocated = PreallocatePages
    /\ handed = {}
    /\ mem_calls = 0
    /\ mem_ret = MemRet("new", "Ok", 0, NoRegion, "none")

\* Kernel::new: Scheduler::new(100) and CapabilitySpace::new()
SchedInit ==
    /\ capabilities = <<>>
    /\ next_id = 1
    /\ cap_pre = <<>>
    /\ cap_ret = CapRet("new", "Ok", 0, "None", {}, NoCap)
    /\ tasks = <<>>
    /\ current = NoTask
    /\ cpu_affinity = <<>>
    /\ realtime_queue = <<>>
    /\ stats = NewStats
    /\ now = 0
    /\ added = 0
    /\ sched_hung = FALSE
    /\ calls = 0
    /\ sched_ret = SchedRet("new", "Ok", NoTask, NoCpu, 0)
    /\ capacity = Capacity
    /\ queues = <<>>
    /\ shared_buffers = <<>>
    /\ ipc_stats = NewIPCStats
    /\ rx = NoWait
    /\ ipc_calls = 0
    /\ ipc_ret = IpcRet("new", "Ok", NoMessage, 0, 0)
    /\ regions = <<>>
    /\ free_lists = NewFreeLists
    /\ huge_pages = <<>>
    /\ cache = <<>>
    /\ preallocated = PreallocatePages
    /\ handed = {}
    /\ mem_calls = 0
    /\ mem_ret = MemRet("new", "Ok", 0, NoRegion, "none")

SpecCap == CapInit /\ [][CapNext]_vars

SpecSched == SchedInit /\ [][SchedNext]_vars

\* the message queue of Kernel::new
SpecIpc == SchedInit /\ [][IpcNext]_vars

\* the memory manager of Kernel::new
SpecMem == SchedInit /\ [][MemNext]_vars

SpecMemLong == SchedInit /\ [][MemNextLong]_vars

\* a message queue from MessageQueue::new(capacity), for every capacity
QueueInit ==
    /\ capabilities = <<>>
    /\ next_id = 1
    /\ cap_pre = <<>>
    /\ cap_ret = CapRet("new", "Ok", 0, "None", {}, NoCap)
    /\ tasks = <<>>
    /\ current = NoTask
    /\ cpu_affinity = <<>>
    /\ realtime_queue = <<>>
    /\ stats = NewStats
    /\ now = 0
    /\ added = 0
    /\ sched_hung = FALSE
    /\ calls = 0
    /\ sched_ret = SchedRet("new", "Ok", NoTask, NoCpu, 0)
    /\ capacity \in 0..Capacity
    /\ queues = <<>>
    /\ shared_buffers = <<>>
    /\ ipc_stats = NewIPCStats
    /\ rx = NoWait
    /\ ipc_calls = 0
    /\ ipc_ret = IpcRet("new", "Ok", NoMessage, 0, 0)
    /\ regions = <<>>
    /\ free_lists = NewFreeLists
    /\ huge_pages = <<>>
    /\ cache = <<>>
    /\ preallocated = PreallocatePages
    /\ handed = {}
    /\ mem_calls = 0
    /\ mem_ret = MemRet("new", "Ok", 0, NoRegion, "none")

SpecQueue == QueueInit /\ [][IpcNext]_vars

----------------------------------------------------------------------------
(* Claims about the capability space *)

\* the indices of the capabilities with the given id in a capability list
Holders(caps, id) == {i \in 1..Len(caps) : caps[i].id = id}

\* the list without its element at index i
Without(caps, i) == SubSeq(caps, 1, i - 1) \o SubSeq(caps, i + 1, Len(caps))

\* C1: derive(C.id, R) on a held capability C succeeds iff every right bit of R
\* is set in C's rights; the capability returned has rights R, the type,
\* resource and owner of C and an id that generate_id just produced and that
\* no held capability has; an id that is not held gives CapabilityNotFound, a
\* non-subset R gives InsufficientRights; the space is not changed.
C1_DeriveSubsetLaw ==
    cap_ret.op = "derive" =>
        /\ capabilities = cap_pre
        /\ Holders(cap_pre, cap_ret.id) = {} => cap_ret.err = "CapabilityNotFound"
        /\ \A i \in Holders(cap_pre, cap_ret.id) :
              /\ cap_ret.err = "Ok" <=> cap_ret.rights \subseteq cap_pre[i].rights
              /\ ~(cap_ret.rights \subseteq cap_pre[i].rights) => cap_ret.err = "InsufficientRights"
              /\ cap_ret.err = "Ok" =>
                    /\ cap_ret.cap.rights = cap_ret.rights
                    /\ cap_ret.cap.typ = cap_pre[i].typ
                    /\ cap_ret.cap.resource = cap_pre[i].resource
                    /\ cap_ret.cap.owner = cap_pre[i].owner
                    /\ cap_ret.cap.id = next_id - 1
                    /\ cap_ret.cap.id \notin HeldIds(cap_pre)

\* a derive that returned a capability with fewer rights than its source
C1_Witness ==
    /\ cap_ret.op = "derive"
    /\ cap_ret.err = "Ok"
    /\ cap_ret.cap.rights # {}
    /\ \E i \in Holders(cap_pre, cap_ret.id) : cap_ret.cap.rights # cap_pre[i].rights

\* C2: grant(cap) succeeds iff a held capability of cap's type has the grant
\* bit and rights that include cap's rights; on success cap is appended and
\* the capabilities held before are unchanged; otherwise it fails with
\* InsufficientRights and the space is unchanged.
C2_GrantAuthorized ==
    cap_ret.op = "grant" =>
        LET authorized == \E i \in 1..Len(cap_pre) :
                             /\ cap_pre[i].typ = cap_ret.cap.typ
                             /\ "grant" \in cap_pre[i].rights
                             /\ cap_ret.cap.rights \subseteq cap_pre[i].rights
        IN /\ cap_ret.err = "Ok" <=> authorized
           /\ authorized => capabilities = cap_pre \o <<cap_ret.cap>>
           /\ ~authorized => cap_ret.err = "InsufficientRights" /\ capabilities = cap_pre

\* a grant that appended a capability with some right to a non-empty space
C2_Witness ==
    /\ cap_ret.op = "grant"
    /\ cap_ret.err = "Ok"
    /\ cap_ret.cap.rights # {}
    /\ Len(capabilities) = Len(cap_pre) + 1

\* C3: revoke(id) fails with CapabilityNotFound when no held capability has the
\* id; for a held target it fails with InsufficientRights unless a held
\* capability of the target's type and resource has the revoke bit; otherwise
\* exactly the target is removed and the others remain, in their order.
C3_RevokeContract ==
    cap_ret.op = "revoke" =>
        /\ Holders(cap_pre, cap_ret.id) = {} =>
              cap_ret.err = "CapabilityNotFound" /\ capabilities = cap_pre
        /\ \A i \in Holders(cap_pre, cap_ret.id) :
              LET authorized == \E j \in 1..Len(cap_pre) :
                                   /\ cap_pre[j].typ = cap_pre[i].typ
                                   /\ "revoke" \in cap_pre[j].rights
                                   /\ cap_pre[j].resource = cap_pre[i].resource
              IN /\ ~authorized => cap_ret.err = "InsufficientRights" /\ capabilities = cap_pre
                 /\ authorized => cap_ret.err = "Ok" /\ capabilities = Without(cap_pre, i)

\* a revoke that removed a capability on the authority of another one
C3_Witness ==
    /\ cap_ret.op = "revoke"
    /\ cap_ret.err = "Ok"
    /\ "revoke" \notin cap_ret.cap.rights
    /\ Len(capabilities) = Len(cap_pre) - 1

\* the revoke bit is carried by a capability of the list with this type and resource
RevokeBitHeld(caps, typ, resource) ==
    \E j \in 1..Len(caps) :
        /\ caps[j].typ = typ
        /\ "revoke" \in caps[j].rights
        /\ caps[j].resource = resource

\* C4 as stated: when no held capability of the same type and resource carries
\* the revoke bit, revoke fails with InsufficientRights, whether the target id
\* is held or not (for an id that is not held: no type and resource has one).
C4_RevokeGatedAlways ==
    cap_ret.op = "revoke" =>
        /\ \A i \in Holders(cap_pre, cap_ret.id) :
              ~RevokeBitHeld(cap_pre, cap_pre[i].typ, cap_pre[i].resource)
                  => cap_ret.err = "InsufficientRights"
        /\ (/\ Holders(cap_pre, cap_ret.id) = {}
            /\ \A t \in CapabilityType, r \in Resources : ~RevokeBitHeld(cap_pre, t, r))
              => cap_ret.err = "InsufficientRights"

\* C4 amended: for a held target without such an authorising capability revoke
\* fails with InsufficientRights and removes nothing; for an id that is not
\* held it fails with CapabilityNotFound, whatever revoke bits are held.
C4_RevokeGatedWhenHeld ==
    cap_ret.op = "revoke" =>
        /\ \A i \in Holders(cap_pre, cap_ret.id) :
              ~RevokeBitHeld(cap_pre, cap_pre[i].typ, cap_pre[i].resource)
                  => cap_ret.err = "InsufficientRights" /\ capabilities = cap_pre
        /\ Holders(cap_pre, cap_ret.id) = {} => cap_ret.err = "CapabilityNotFound"

\* a revoke of a held capability refused although another type or resource
\* has the revoke bit
C4_Witness ==
    /\ cap_ret.op = "revoke"
    /\ cap_ret.err = "InsufficientRights"
    /\ Holders(cap_pre, cap_ret.id) # {}
    /\ \E j \in 1..Len(cap_pre) : "revoke" \in cap_pre[j].rights

\* C5: check(type, rights) is true iff a held capability of the type has every
\* requested bit among read, write, execute, grant and revoke; check changes
\* nothing in the space.
C5_CheckDominatesAllBits ==
    cap_ret.op = "check" =>
        /\ capabilities = cap_pre
        /\ cap_ret.err = "true" <=>
              \E i \in 1..Len(cap_pre) :
                  /\ cap_pre[i].typ = cap_ret.typ
                  /\ cap_ret.rights \subseteq cap_pre[i].rights

----------------------------------------------------------------------------
(* Claims about the scheduler *)

\* this step is a call of the scheduler operation op
Called(op) == calls' = calls + 1 /\ sched_ret'.op = op

\* the pooled tasks that are Ready
ReadyPooled == {i \in 1..Len(tasks) : tasks[i].state = "Ready"}

\* the task is allowed on the core by its affinity mask
AllowedOn(task, cpu) == (task.affinity \div (2^cpu)) % 2 = 1

\* C6: priority dominance: when a task of priority Realtime is Ready, a
\* schedule() call that returns a task returns a Realtime task, never a
\* non-realtime one.
C6_RealtimeFirst ==
    [][(/\ Called("schedule")
        /\ \E i \in ReadyPooled : tasks[i].priority = "Realtime"
        /\ sched_ret'.err = "Some")
          => sched_ret'.task.priority = "Realtime"]_vars

\* C7: when schedule() selects a new task from the pool, that task was Ready
\* in the pool and no other pooled Ready task allowed on the requesting core
\* has a strictly higher priority; it returns nothing only if no pooled task
\* is Ready.
C7_HighestPriorityLeaves ==
    [][Called("schedule") =>
        /\ (sched_ret'.err = "Some" /\ current' = sched_ret'.task /\ sched_ret'.id # current.id) =>
              /\ \E i \in ReadyPooled : tasks[i].id = sched_ret'.id
              /\ \A i \in ReadyPooled :
                    (tasks[i].id # sched_ret'.id /\ AllowedOn(tasks[i], sched_ret'.cpu))
                        => PriorityRank(tasks[i].priority) >= PriorityRank(sched_ret'.task.priority)
        /\ sched_ret'.err = "None" => ReadyPooled = {}]_vars

\* C8: affinity is a hard constraint: a task returned by schedule() on core c
\* has bit c of its affinity mask set, on every path of schedule().
C8_AffinityHard ==
    (sched_ret.op = "schedule" /\ sched_ret.err = "Some")
        => AllowedOn(sched_ret.task, sched_ret.cpu)

\* C9: while the current task is Running with time left in its quantum and no
\* realtime task is queued, schedule() returns that task without a switch and
\* the task stays the scheduler's current task.
C9_KeepsRunningTask ==
    [][(/\ Called("schedule")
        /\ realtime_queue = <<>>
        /\ current # NoTask
        /\ current.state = "Running"
        /\ now - current.last_run < current.quantum)
          => /\ sched_ret'.err = "Some"
             /\ sched_ret'.id = current.id
             /\ stats'.context_switches = stats.context_switches
             /\ current' # NoTask
             /\ current'.id = current.id]_vars

\* the state the scheduler holds for the task with the id, "None" if it holds none
HeldState(pool, cur, id) ==
    IF cur # NoTask /\ cur.id = id THEN cur.state
    ELSE IF \E i \in 1..Len(pool) : pool[i].id = id
         THEN (CHOOSE t \in {pool[i] : i \in 1..Len(pool)} : t.id = id).state
         ELSE "None"

\* C10: block_task on the currently Running task succeeds and makes it
\* Blocked; schedule() never returns a task that is Blocked; wake_task on a
\* Blocked task succeeds and makes it Ready.
C10_BlockWakeStateMachine ==
    [][/\ (Called("block_task") /\ current # NoTask /\ current.state = "Running"
              /\ sched_ret'.id = current.id)
          => (sched_ret'.err = "Ok" /\ HeldState(tasks', current', current.id) = "Blocked")
       /\ (Called("schedule") /\ sched_ret'.err = "Some")
          => HeldState(tasks, current, sched_ret'.id) # "Blocked"
       /\ (Called("wake_task") /\ HeldState(tasks, current, sched_ret'.id) = "Blocked")
          => (sched_ret'.err = "Ok" /\ HeldState(tasks', current', sched_ret'.id) = "Ready")]_vars

\* the task ids the scheduler holds, in the pool or as the running task
Known == {tasks[i].id : i \in 1..Len(tasks)} \cup (IF current = NoTask THEN {} ELSE {current.id})

\* this step is a call of one of the four operations that look a task up by id
CalledLookup ==
    Called("block_task") \/ Called("wake_task") \/ Called("set_priority") \/ Called("set_affinity")

\* C11: block_task, wake_task, set_priority and set_affinity fail with
\* TaskNotFound exactly when no task with the given id is held by the
\* scheduler, in any state; wake_task on a held task that is not Blocked
\* fails with InvalidState; a failing call changes no task's state, priority
\* or affinity.
C11_LookupContract ==
    [][CalledLookup =>
        /\ (sched_ret'.err = "TaskNotFound") <=> (sched_ret'.id \notin Known)
        /\ (Called("wake_task") /\ sched_ret'.id \in Known
               /\ HeldState(tasks, current, sched_ret'.id) # "Blocked")
             => sched_ret'.err = "InvalidState"
        /\ sched_ret'.err # "Ok" => UNCHANGED <<tasks, current, cpu_affinity>>]_vars

\* the pooled task records, as a set (task ids are unique)
Pooled(pool) == {pool[i] : i \in 1..Len(pool)}

\* C12: add_task always succeeds; afterwards the task is in the ready pool
\* with state Ready, runtime 0, last-run 0, switch count 0 and no last CPU,
\* whatever the argument held in those fields; no other task is changed.
C12_AddTaskResets ==
    [][Called("add_task") =>
        /\ sched_ret'.err = "Ok"
        /\ Len(tasks') = Len(tasks) + 1
        /\ Pooled(tasks') = Pooled(tasks) \cup
              {[sched_ret'.task EXCEPT !.state = "Ready", !.runtime = 0, !.last_run = 0,
                                       !.switches = 0, !.last_cpu = NoCpu]}
        /\ UNCHANGED <<current, cpu_affinity>>]_vars

\* add_task has taken a task whose transient fields were all set, next to
\* another pooled task, and the pool holds it with those fields reset
C12_Witness ==
    /\ sched_ret.op = "add_task"
    /\ sched_ret.task.state = "Terminated" /\ sched_ret.task.runtime > 0
    /\ sched_ret.task.last_run > 0 /\ sched_ret.task.switches > 0
    /\ sched_ret.task.last_cpu # NoCpu
    /\ Len(tasks) >= 2
    /\ \E i \in 1..Len(tasks) :
          /\ tasks[i].id = sched_ret.id /\ tasks[i].state = "Ready"
          /\ tasks[i].runtime = 0 /\ tasks[i].last_run = 0
          /\ tasks[i].switches = 0 /\ tasks[i].last_cpu = NoCpu

----------------------------------------------------------------------------
(* Claims about the message queue *)

\* this step is a call of the message queue that returned from operation op,
\* at once or out of wait_for_message
Returned(op) == ipc_ret'.op = op /\ (ipc_calls' = ipc_calls + 1 \/ rx # NoWait)

\* the mailbox of a task, empty when it was never created
Mailbox(qs, t) == IF t \in DOMAIN qs THEN qs[t] ELSE <<>>

IsNonSignal(m) == m.typ # "Signal"

\* the non-signal messages of a mailbox, front first
NonSignals(q) == SelectSeq(q, IsNonSignal)

\* C13: IPC ordering: the non-signal messages of a mailbox are received in
\* the order they were sent (a send puts its message behind every queued
\* non-signal message, a receive takes the front of the mailbox and leaves
\* the rest in order); a Signal sent after queued non-signal messages stands
\* before all of them, so the next receive returns it.
C13_Ordering ==
    [][/\ (Returned("send") /\ ipc_ret'.err = "Ok" /\ IsNonSignal(ipc_ret'.msg))
          => NonSignals(Mailbox(queues', ipc_ret'.msg.receiver))
                = Append(NonSignals(Mailbox(queues, ipc_ret'.msg.receiver)), ipc_ret'.msg)
       /\ (Returned("send") /\ ipc_ret'.err = "Ok" /\ ~IsNonSignal(ipc_ret'.msg))
          => /\ Head(Mailbox(queues', ipc_ret'.msg.receiver)) = ipc_ret'.msg
             /\ NonSignals(Mailbox(queues', ipc_ret'.msg.receiver))
                   = NonSignals(Mailbox(queues, ipc_ret'.msg.receiver))
       /\ (Returned("receive") /\ ipc_ret'.err = "Ok")
          => /\ Mailbox(queues, ipc_ret'.task) # <<>>
             /\ ipc_ret'.msg = Head(Mailbox(queues, ipc_ret'.task))
             /\ Mailbox(queues', ipc_ret'.task) = Tail(Mailbox(queues, ipc_ret'.task))]_vars

\* a receive has returned a Signal that was sent behind two non-signal
\* messages, which are still queued in their order
C13_Witness ==
    /\ ipc_ret.op = "receive" /\ ipc_ret.err = "Ok" /\ ipc_ret.msg.typ = "Signal"
    /\ Len(NonSignals(Mailbox(queues, ipc_ret.task))) = 2
    /\ Mailbox(queues, ipc_ret.task)[1].id # Mailbox(queues, ipc_ret.task)[2].id
    /\ ipc_stats.messages_received = 1

\* C14: a non-signal send fails with QueueFull exactly when the receiver's
\* mailbox holds at least capacity messages and the message's non-blocking
\* flag is not set; otherwise it is appended at the back and the call is Ok.
C14_QueueFull ==
    [][(Returned("send") /\ IsNonSignal(ipc_ret'.msg)) =>
        LET msg == ipc_ret'.msg
            q == Mailbox(queues, msg.receiver) IN
        /\ (ipc_ret'.err = "QueueFull") <=> (Len(q) >= capacity /\ ~msg.flags.nonblocking)
        /\ ipc_ret'.err # "QueueFull"
             => (ipc_ret'.err = "Ok" /\ Mailbox(queues', msg.receiver) = Append(q, msg))
        /\ ipc_ret'.err = "QueueFull" => Mailbox(queues', msg.receiver) = q]_vars

\* a send was refused with QueueFull at a mailbox that a non-blocking send
\* had filled beyond its capacity
C14_Witness ==
    /\ ipc_ret.op = "send" /\ ipc_ret.err = "QueueFull"
    /\ Len(Mailbox(queues, ipc_ret.msg.receiver)) > Capacity
    /\ \E i \in 1..Len(Mailbox(queues, ipc_ret.msg.receiver)) :
          i > Capacity /\ Mailbox(queues, ipc_ret.msg.receiver)[i].flags.nonblocking

\* C15: a Signal send always succeeds, also when the mailbox is at or above
\* capacity, and the signal is placed at the front of the mailbox.
C15_SignalBypass ==
    [][(Returned("send") /\ ipc_ret'.msg.typ = "Signal") =>
        /\ ipc_ret'.err = "Ok"
        /\ Mailbox(queues', ipc_ret'.msg.receiver)
              = <<ipc_ret'.msg>> \o Mailbox(queues, ipc_ret'.msg.receiver)]_vars

\* a signal was sent to a mailbox that was at capacity and stands at its front
C15_Witness ==
    /\ ipc_ret.op = "send" /\ ipc_ret.err = "Ok" /\ ipc_ret.msg.typ = "Signal"
    /\ Len(Mailbox(queues, ipc_ret.msg.receiver)) > Capacity
    /\ Head(Mailbox(queues, ipc_ret.msg.receiver)) = ipc_ret.msg
    /\ Len(NonSignals(Mailbox(queues, ipc_ret.msg.receiver))) >= Capacity

\* this step is a call of receive by the task with the timeout
ReceiveCalled(task_id, timeout) ==
    /\ ipc_calls' = ipc_calls + 1
    /\ ipc_ret'.op \in {"receive", "wait"}
    /\ ipc_ret'.task = task_id /\ ipc_ret'.timeout = timeout

\* C16: receive(0) on a mailbox that is empty or was never created fails with
\* NoMessages; receive on a non-empty mailbox removes and returns the front
\* message and increments the received counter by one.
C16_ReceiveContract ==
    [][\A t \in Receivers, timeout \in Timeouts : ReceiveCalled(t, timeout) =>
        /\ (timeout = 0 /\ Mailbox(queues, t) = <<>>)
             => (ipc_ret'.err = "NoMessages" /\ UNCHANGED <<queues, ipc_stats>>)
        /\ Mailbox(queues, t) # <<>>
             => /\ ipc_ret'.op = "receive" /\ ipc_ret'.err = "Ok"
                /\ ipc_ret'.msg = Head(queues[t])
                /\ queues' = [queues EXCEPT ![t] = Tail(queues[t])]
                /\ ipc_stats'.messages_received = ipc_stats.messages_received + 1]_vars

\* after a receive that returned a message, receive(0) of a task whose mailbox
\* was never created has failed with NoMessages
C16_Witness ==
    /\ ipc_ret.op = "receive" /\ ipc_ret.err = "NoMessages" /\ ipc_ret.timeout = 0
    /\ ipc_ret.task \notin DOMAIN queues
    /\ ipc_stats.messages_received = 1

\* C17: receive with a timeout above zero on an empty mailbox, one that was
\* never created included, ends with Timeout and never with NoMessages.
C17_TimedReceiveEnds ==
    (ipc_ret.op = "receive" /\ ipc_ret.timeout > 0) => ipc_ret.err \in {"Ok", "Timeout"}

\* C18: while a task waits in receive with a timeout, a send can complete
\* (and the waiting receive then returns that message).
C18_SendDuringWait ==
    (rx # NoWait /\ ipc_calls < MaxIpcCalls) => ENABLED SendStep

\* C19: zero-copy lifecycle: a registered shared buffer is not reclaimed
\* while a queued message still references it.
C19_BufferOutlivesMessages ==
    \A t \in DOMAIN queues : \A i \in 1..Len(queues[t]) :
        (IsNonSignal(queues[t][i]) /\ queues[t][i].flags.zero_copy
            /\ queues[t][i].data # NoData)
          => queues[t][i].id \in DOMAIN shared_buffers

----------------------------------------------------------------------------
(* Claims about the memory manager *)

\* this step is a call of the memory manager operation op
MemCalled(op) == mem_calls' = mem_calls + 1 /\ mem_ret'.op = op

\* C20: memory round-trip: when a region that allocate(size, Data,
\* default_flags) returned has just been freed, a following allocate of the
\* same size succeeds and takes its address from the size-classed free list.
C20_RoundTrip ==
    [][(/\ mem_ret.op = "free" /\ mem_ret.err = "Ok"
        /\ mem_ret.region.typ = "Data" /\ mem_ret.region.flags = DefaultFlags
        /\ MemCalled("allocate") /\ mem_ret'.size = mem_ret.region.size)
          => (mem_ret'.err = "Ok" /\ mem_ret'.path = "free_list")]_vars

\* C21: share on a region whose type is not Shared always fails with
\* InvalidRegionType, whether or not the region is tracked, and adds no
\* record to the tracked-region list.
C21_ShareNeedsSharedType ==
    [][\A region \in handed, target \in ShareTargets :
          (region.typ # "Shared" /\ Share(region, target, DefaultFlags))
            => (mem_ret'.err = "InvalidRegionType" /\ regions' = regions)]_vars

\* the tracked region records, as a set
Tracked(rs) == {rs[i] : i \in 1..Len(rs)}

\* the addresses held by the huge-page pool under the key
HugePool(hp, key) == IF key \in DOMAIN hp THEN hp[key] ELSE <<>>

\* C22: free(region) is the inverse of allocate: a region of a free-list
\* bucket size has its address returned to that bucket, a huge-page-sized
\* region has its address returned to the huge-page pool, any other tracked
\* region is unmapped, and in every successful case the region's record is
\* no longer tracked; free of a region that is untracked and not
\* list-eligible fails with RegionNotFound.
C22_FreeInverse ==
    [][\A region \in handed : Free(region) =>
        LET bucket == ListOf(free_lists, region.size)
            key == AlignUp(region.size, HUGE_PAGE_SIZE) IN
        /\ bucket # 0
             => /\ mem_ret'.err = "Ok"
                /\ free_lists'[bucket].pages = Append(free_lists[bucket].pages, region.start)
        /\ (bucket = 0 /\ region.size >= HUGE_PAGE_SIZE)
             => /\ mem_ret'.err = "Ok"
                /\ HugePool(huge_pages', key) = Append(HugePool(huge_pages, key), region.start)
        /\ (bucket = 0 /\ region.size < HUGE_PAGE_SIZE)
             => (mem_ret'.err = "RegionNotFound") <=> (RegionAt(regions, region.start) = 0)
        /\ mem_ret'.err = "Ok" => region \notin Tracked(regions')]_vars

\* C23: every MemoryRegion record created by allocate, share or map_device
\* has a size that is a multiple of the page size, of the huge-page size when
\* its huge flag is set.
C23_SizesAligned ==
    \A r \in Tracked(regions) \cup handed :
        r.size % (IF "huge" \in r.flags THEN HUGE_PAGE_SIZE ELSE PageSize) = 0

\* C24: allocate tries its sources in the order pre-warmed pool, size-classed
\* free list, huge-page pool, free-region search; the first source that can
\* yield an address supplies the region, and allocate fails with OutOfMemory
\* exactly when none of the sources applicable to the size can yield one: it
\* is not refused while a free-list bucket of sufficient size holds a page.
C24_SourceOrder ==
    [][\A size \in SizesUsed, typ \in AllocTypesUsed, flags \in FlagsUsed :
        Allocate(size, typ, flags) =>
          LET pool == size <= PageSize /\ preallocated # <<>>
              list == \E i \in 1..Len(free_lists) :
                         free_lists[i].size >= size /\ free_lists[i].pages # <<>>
              huge == /\ size >= HUGE_PAGE_SIZE
                      /\ HugePool(huge_pages, AlignUp(size, HUGE_PAGE_SIZE)) # <<>>
              search == FindFreeRegion(size) # NoAddr
          IN  /\ (mem_ret'.err = "OutOfMemory") <=> ~(pool \/ list \/ huge \/ search)
              /\ mem_ret'.err = "Ok" =>
                    mem_ret'.path = IF pool THEN "preallocated"
                                    ELSE IF list THEN "free_list"
                                    ELSE IF huge THEN "huge_pages"
                                    ELSE "find_free_region"]_vars

----------------------------------------------------------------------------
(* Claims about the kernel as a whole *)

\* the Error enums of the four components
CapErrors == {"InsufficientRights", "CapabilityNotFound", "ResourceLimitExceeded",
              "InvalidCapability"}
SchedErrors == {"TaskNotFound", "InvalidState", "InvalidPriority", "InvalidAffinity"}
IpcErrors == {"QueueFull", "NoMessages", "InvalidReceiver", "Timeout", "ZeroCopyFailed"}
MemErrors == {"OutOfMemory", "RegionNotFound", "InvalidRegionType", "InvalidAddress",
              "InvalidFlags", "MappingFailed"}

\* C25: failure atomicity: when a public operation of the capability space,
\* the scheduler, the message queue or the memory manager returns an error,
\* the internal structures of the component (held capabilities; task pool,
\* current task and counters; mailboxes, shared-buffer table and counters;
\* tracked regions, free lists and pools) are exactly as before the call.
C25_FailureAtomicity ==
    [][/\ cap_ret'.err \in CapErrors => UNCHANGED capabilities
       /\ sched_ret'.err \in SchedErrors
             => UNCHANGED <<tasks, current, cpu_affinity, realtime_queue, stats>>
       /\ ipc_ret'.err \in IpcErrors
             => UNCHANGED <<queues, shared_buffers, ipc_stats>>
       /\ mem_ret'.err \in MemErrors
             => UNCHANGED <<regions, free_lists, huge_pages, preallocated, cache>>]_vars

\* C26: the end-to-end scenario: with a Normal task A and a Realtime task B
\* added and Ready, schedule() returns B, and then block_task(B) succeeds (so
\* that the next schedule() returns A, A sends B a 4096-byte zero-copy message
\* and B's receive(0) returns it and releases its shared buffer).
C26_EndToEnd ==
    [][\A b \in TaskIds :
          (/\ added = 2 /\ calls = 3
           /\ sched_ret.op = "schedule" /\ sched_ret.err = "Some"
           /\ sched_ret.id = b /\ sched_ret.task.priority = "Realtime"
           /\ \E i \in ReadyPooled : tasks[i].priority = "Normal"
           /\ BlockTask(b))
            => sched_ret'.err = "Ok"]_vars

\* the tasks the scheduler holds
Held == Pooled(tasks) \cup (IF current = NoTask THEN {} ELSE {current})

\* C27: quantum monotonicity: for a fixed base time slice and fixed history
\* and cache factors (those of any task the scheduler holds, on any core), the
\* truncated quantum is non-decreasing along Realtime, High, Normal, Low,
\* Background; in particular Realtime's is at most Background's.
C27_QuantumMonotone ==
    \A t \in Held, cpu \in Cpus, base \in BasesUsed, p \in Priority, q \in Priority :
        PriorityRank(p) <= PriorityRank(q)
          => QuantumOf(base, [t EXCEPT !.priority = p], cpu)
               <= QuantumOf(base, [t EXCEPT !.priority = q], cpu)

\* a dispatched task with a run history, cache-hot on its core, for which the
\* quantum is truncated for some base and Realtime's is shorter than Background's
C27_Witness ==
    /\ sched_ret.op = "schedule" /\ sched_ret.err = "Some"
    /\ current # NoTask /\ current.runtime > 0
    /\ IsCacheHot(current, current.last_cpu)
    /\ \E base \in BasesUsed :
          /\ (base * PriorityFactor4("Realtime") * HistoryFactor5(current)
                 * CacheFactor5(current, current.last_cpu)) % 100 # 0
          /\ QuantumOf(base, [current EXCEPT !.priority = "Realtime"], current.last_cpu)
               < QuantumOf(base, [current EXCEPT !.priority = "Background"], current.last_cpu)

\* C28: when schedule() finds that the Running current task has run for at
\* least its quantum, the task is made Ready and pushed back on the pool with
\* its runtime grown by the elapsed time: the call either dispatches it again
\* or leaves it Ready in the pool, where later calls can select it.
C28_Preemption ==
    [][(/\ Called("schedule")
        /\ realtime_queue = <<>>
        /\ current # NoTask /\ current.state = "Running"
        /\ now - current.last_run >= current.quantum)
         => LET elapsed == now - current.last_run
                back == [current EXCEPT !.state = "Ready",
                                        !.runtime = current.runtime + elapsed]
            IN \/ back \in Pooled(tasks')
               \/ /\ sched_ret'.err = "Some" /\ sched_ret'.id = current.id
                  /\ current' = sched_ret'.task
                  /\ current'.state = "Running"
                  /\ current'.runtime = back.runtime
                  /\ current'.switches = current.switches + 1]_vars

\* a schedule() call has preempted a task, which waits Ready in the pool with
\* its runtime counted, and has dispatched another task
C28_Witness ==
    /\ sched_ret.op = "schedule" /\ sched_ret.err = "Some"
    /\ stats.preemptions >= 1
    /\ \E t \in Pooled(tasks) :
          t.state = "Ready" /\ t.runtime >= TimeSlice /\ t.switches >= 1 /\ t.id # sched_ret.id

\* C29: schedule() terminates for every pool content and every affinity
\* configuration: no call is left looping over the pool, popping and pushing
\* back the same task.
C29_ScheduleTerminates == ~sched_hung /\ sched_ret.err # "Hang"

\* C30: set_priority on a pooled task takes effect on selection: a schedule()
\* call that follows a successful set_priority and selects from the pool
\* returns a task such that no pooled Ready task allowed on the calling core
\* has a strictly higher priority, the changed priority included.
C30_SetPriorityTakesEffect ==
    [][(/\ sched_ret.op = "set_priority" /\ sched_ret.err = "Ok"
        /\ Called("schedule")
        /\ current = NoTask /\ realtime_queue = <<>>
        /\ sched_ret'.err = "Some")
         => \A i \in ReadyPooled :
               (/\ AllowedOn(tasks[i], sched_ret'.cpu)
                /\ tasks[i].id \in DOMAIN cpu_affinity
                      => ~BitClear(cpu_affinity[tasks[i].id], sched_ret'.cpu))
                 => PriorityRank(tasks[i].priority) >= PriorityRank(sched_ret'.task.priority)]_vars

----------------------------------------------------------------------------
(* Further claims about the memory manager *)

\* C31: share(region, target, flags) on a tracked region of type Shared
\* succeeds and adds exactly one record, with the region's start and size,
\* type Shared, owner target and the given flags, leaving every other record
\* as it was; on an untracked region of type Shared it fails with
\* RegionNotFound.
C31_ShareContract ==
    [][\A region \in handed, target \in ShareTargets :
          (region.typ = "Shared" /\ Share(region, target, DefaultFlags))
            => IF region \in Tracked(regions)
               THEN /\ mem_ret'.err = "Ok"
                    /\ regions' = Append(regions,
                                         MemoryRegion(region.start, region.size, "Shared",
                                                      DefaultFlags, target))
               ELSE /\ mem_ret'.err = "RegionNotFound"
                    /\ regions' = regions]_vars

\* C33: no use-after-free through sharing: once free(region) has returned
\* Ok, a share of that region fails with RegionNotFound and adds no record,
\* whatever the size of the region.
C33_NoShareAfterFree ==
    [][\A region \in handed, target \in ShareTargets :
          (/\ mem_ret.op = "free" /\ mem_ret.err = "Ok" /\ mem_ret.region = region
           /\ Share(region, target, DefaultFlags))
            => (mem_ret'.err = "RegionNotFound" /\ regions' = regions)]_vars

\* the addresses waiting in the free lists, the huge-page pools and the
\* pre-warmed pool, one sequence after the other
PoolAddrs ==
    LET RECURSIVE Lists(_)
        Lists(i) == IF i > Len(free_lists) THEN <<>>
                    ELSE free_lists[i].pages \o Lists(i + 1)
        RECURSIVE Huge(_)
        Huge(keys) == IF keys = {} THEN <<>>
                      ELSE LET k == CHOOSE x \in keys : TRUE IN
                           huge_pages[k] \o Huge(keys \ {k})
    IN Lists(1) \o Huge(DOMAIN huge_pages) \o preallocated

\* C39: no address is handed out twice: no address occurs twice in the free
\* lists and pools, and no address is both in a free list or pool and the
\* start of a tracked region record.
C39_NoAddressTwice ==
    /\ \A i \in 1..Len(PoolAddrs), j \in 1..Len(PoolAddrs) :
          PoolAddrs[i] = PoolAddrs[j] => i = j
    /\ \A i \in 1..Len(PoolAddrs), r \in Tracked(regions) : PoolAddrs[i] # r.start

\* C40: when several tracked records alias the start address of the region
\* passed to free and free removes a record, it removes one record of the
\* region's owner and start and leaves every other record tracked.
C40_FreeOwnRecord ==
    [][\A region \in handed :
          (/\ Free(region)
           /\ Cardinality({i \in 1..Len(regions) : regions[i].start = region.start}) >= 2
           /\ regions' # regions)
            => \E i \in 1..Len(regions) :
                  /\ regions[i].start = region.start
                  /\ regions[i].owner = region.owner
                  /\ regions' = Remove(regions, i)]_vars

----------------------------------------------------------------------------
(* Further claims about the message queue *)

\* the queued messages, over all mailboxes
Queued == UNION {{queues[t][i] : i \in 1..Len(queues[t])} : t \in DOMAIN queues}

\* the queued messages that carry a zero-copy payload
ZeroCopyQueued == {m \in Queued : IsNonSignal(m) /\ m.flags.zero_copy /\ m.data # NoData}

\* C32: the shared-buffer table follows the queued zero-copy messages: every
\* registered buffer has count 1 and is referenced by a queued message, every
\* queued zero-copy message with data has its buffer registered, and with
\* all mailboxes empty the table is empty.
C32_BufferTable ==
    /\ \A id \in DOMAIN shared_buffers :
          /\ shared_buffers[id].refcount = 1
          /\ \E m \in ZeroCopyQueued : m.id = id
    /\ \A m \in ZeroCopyQueued : m.id \in DOMAIN shared_buffers
    /\ Queued = {} => shared_buffers = <<>>

\* in every mailbox the signals stand before all non-signal messages
SignalsFirst(qs) ==
    \A t \in DOMAIN qs : \A i \in 1..Len(qs[t]), j \in 1..Len(qs[t]) :
        (i < j /\ ~IsNonSignal(qs[t][j])) => ~IsNonSignal(qs[t][i])

\* C37: signals are received in reverse send order, ahead of all queued
\* non-signal messages: a Signal that is sent goes in front of the whole
\* mailbox, the earlier signals keeping their order behind it, a receive takes
\* the front, and so the signals always stand before the non-signal messages
\* with the most recently sent one first.
C37_SignalsLifo ==
    [][/\ (Returned("send") /\ ipc_ret'.msg.typ = "Signal")
          => /\ ipc_ret'.err = "Ok"
             /\ Mailbox(queues', ipc_ret'.msg.receiver)
                   = <<ipc_ret'.msg>> \o Mailbox(queues, ipc_ret'.msg.receiver)
       /\ (Returned("receive") /\ Mailbox(queues, ipc_ret'.task) # <<>>
             /\ Head(Mailbox(queues, ipc_ret'.task)).typ = "Signal")
          => /\ ipc_ret'.err = "Ok"
             /\ ipc_ret'.msg = Head(Mailbox(queues, ipc_ret'.task))
             /\ Mailbox(queues', ipc_ret'.task) = Tail(Mailbox(queues, ipc_ret'.task))
       /\ SignalsFirst(queues')]_vars

\* of two signals sent behind a non-signal message the receive has returned
\* one, signal 2, and the other, signal 1, is now first, before the
\* non-signal message
C37_Witness ==
    /\ ipc_ret.op = "receive" /\ ipc_ret.err = "Ok"
    /\ ipc_ret.msg.typ = "Signal" /\ ipc_ret.msg.id = 2
    /\ ipc_stats.messages_sent = 3 /\ ipc_stats.messages_received = 1
    /\ Len(Mailbox(queues, ipc_ret.task)) = 2
    /\ Mailbox(queues, ipc_ret.task)[1].typ = "Signal"
    /\ Mailbox(queues, ipc_ret.task)[1].id = 1
    /\ IsNonSignal(Mailbox(queues, ipc_ret.task)[2])

RECURSIVE QueuedCount(_)
\* the number of messages queued, over all mailboxes
QueuedCount(qs) ==
    IF DOMAIN qs = {} THEN 0
    ELSE LET t == CHOOSE x \in DOMAIN qs : TRUE IN
         Len(qs[t]) + QueuedCount([x \in DOMAIN qs \ {t} |-> qs[x]])

\* C38: counter consistency: messages_sent minus messages_received is the
\* number of messages queued over all mailboxes; a successful non-signal send
\* adds the message size to total_bytes and a signal adds nothing to it; a
\* rejected send or a failed receive changes no counter.
C38_Counters ==
    [][/\ ipc_stats'.messages_sent - ipc_stats'.messages_received = QueuedCount(queues')
       /\ (Returned("send") /\ ipc_ret'.err = "Ok")
          => /\ ipc_stats'.messages_sent = ipc_stats.messages_sent + 1
             /\ ipc_stats'.messages_received = ipc_stats.messages_received
             /\ ipc_stats'.total_bytes = ipc_stats.total_bytes
                   + (IF IsNonSignal(ipc_ret'.msg) THEN ipc_ret'.msg.size ELSE 0)
       /\ (Returned("receive") /\ ipc_ret'.err = "Ok")
          => ipc_stats' = [ipc_stats EXCEPT !.messages_received = @ + 1]
       /\ ipc_ret'.err \in IpcErrors => ipc_stats' = ipc_stats]_vars

\* a send has been rejected after a zero-copy message, a signal and a receive
\* were counted
C38_Witness ==
    /\ ipc_ret.op = "send" /\ ipc_ret.err = "QueueFull"
    /\ ipc_stats.messages_sent = 3 /\ ipc_stats.messages_received = 0
    /\ ipc_stats.total_bytes = 4096 + 8
    /\ QueuedCount(queues) = 3

----------------------------------------------------------------------------
(* Further claims about the capability space *)

\* the rights the space holds for a type, over all its capabilities of the type
RightsHeld(caps, typ) == UNION {caps[i].rights : i \in {j \in 1..Len(caps) : caps[j].typ = typ}}

\* C34: grant never amplifies authority: a check(t, r) that was false before
\* the last call is false after it, for every type t and rights r, and the
\* rights held per type have not grown; so after any sequence of grant,
\* derive and revoke calls they are a subset of those held initially.
C34_NoAmplification ==
    \A typ \in CapabilityType :
        /\ \A rights \in CapabilityRights :
              CheckResult(capabilities, typ, rights) => CheckResult(cap_pre, typ, rights)
        /\ RightsHeld(capabilities, typ) \subseteq RightsHeld(cap_pre, typ)

\* a grant has succeeded and added a capability that carries rights
C34_Witness ==
    /\ cap_ret.op = "grant" /\ cap_ret.err = "Ok"
    /\ Len(capabilities) = Len(cap_pre) + 1
    /\ capabilities[Len(capabilities)] = cap_ret.cap
    /\ cap_ret.cap.rights # {}
    /\ CheckResult(capabilities, cap_ret.cap.typ, cap_ret.cap.rights)

\* C35: a capability space that holds nothing stays empty under grant,
\* revoke, derive and check: with nothing held every grant fails with
\* InsufficientRights, so a space from new() never gets a first capability.
C35_EmptyStaysEmpty ==
    cap_pre = <<>> =>
        /\ capabilities = <<>>
        /\ cap_ret.op = "grant" => cap_ret.err = "InsufficientRights"
        /\ cap_ret.op \in {"revoke", "derive"} => cap_ret.err = "CapabilityNotFound"
        /\ cap_ret.op = "check" => cap_ret.err = "false"

\* a grant of a capability that carries rights has been refused by an empty space
C35_Witness ==
    /\ cap_pre = <<>> /\ capabilities = <<>>
    /\ cap_ret.op = "grant" /\ cap_ret.err = "InsufficientRights"
    /\ cap_ret.cap.rights = RightBits

----------------------------------------------------------------------------
(* Further claims about the scheduler *)

\* the number of places that hold the task: pool slots, realtime-queue slots
\* and the current slot
PlacesOf(id) ==
    Cardinality({i \in 1..Len(tasks) : tasks[i].id = id})
      + Cardinality({i \in 1..Len(realtime_queue) : realtime_queue[i].id = id})
      + (IF current # NoTask /\ current.id = id THEN 1 ELSE 0)

\* C36: task conservation: every task that was added is held by the
\* scheduler in exactly one place: the ready pool, the realtime queue or the
\* current slot.
C36_TaskConservation == \A id \in 1..added : PlacesOf(id) = 1

====
